---- MODULE Spec2Model ----
(***************************************************************************)
(* Farol collector: the collection use case (CollectUseCase.execute) with  *)
(* its collaborators, and the HTML scraper (RequestsSoupScraper) that      *)
(* feeds it.  One run of execute() is a walk over the configured pages;    *)
(* every collaborator call is recorded in the history variable trace.      *)
(***************************************************************************)
EXTENDS Integers, Naturals, Sequences, FiniteSets, TLC

\* ------------------------------------------------------------------ bounds
MaxPages == 2
MaxItems == 2
MaxTags == 2
MaxCalls == 3
MaxFingerprints == 2
MaxNodes == 3
MaxChain == 2

\* ------------------------------------------------------------ value spaces
None == "None"

Hosts == {"h1", "h2"}

\* A URL is a host and a root-relative path; an empty host is a relative
\* URL and EmptyUrl is the empty string.
EmptyUrl == [host |-> "", path |-> ""]
RelUrl(p) == [host |-> "", path |-> p]
AbsUrl(h, p) == [host |-> h, path |-> p]
ListingPath == "/list"
RawUrls == {EmptyUrl, RelUrl("/a"), AbsUrl("h1", "/a")}
Titles == {"T1", "T2"}
Contents == {"", "<p>c</p>"}
PublishedValues == {None, "2024-01-01"}
Times == {"t1"}

\* ------------------------------------------------------------- exceptions
FarolErrorClasses ==
    {"FarolError", "FetchError", "ParseError", "NormalizeError", "WriteError"}

Exc(cls, cause) == [cls |-> cls, cause |-> cause]
NoExc == Exc("none", <<>>)
IsFarolError(e) == e.cls \in FarolErrorClasses

\* The outcome of a call: a returned value or a raised exception.
Ok(v) == [ok |-> TRUE, val |-> v, exc |-> NoExc]
Raise(e) == [ok |-> FALSE, val |-> None, exc |-> e]

\* Python truthiness of an optional string.
Truthy(s) == s # None /\ s # ""

\* ------------------------------------------------------------ history
\* One collaborator call or outcome: the operation, the page index and the
\* position of the item (or entry) it is about, the URL concerned, the
\* outcome (info, with the exception raised if any) and, for a call of the
\* writer, the arguments passed.
EvArgs(op, page, pos, url, info, exc, args) ==
    [op |-> op, page |-> page, pos |-> pos, url |-> url, info |-> info,
     exc |-> exc, args |-> args]
Ev(op, page, pos, url, info, exc) == EvArgs(op, page, pos, url, info, exc, <<>>)

\* ------------------------------------------------------- UrlNormalizer
DefaultBase == EmptyUrl

UrlJoin(base, url) ==
    IF url.host # "" THEN url ELSE AbsUrl(base.host, url.path)

ToAbsolute(url, base_url) ==
    IF url = EmptyUrl THEN Raise(Exc("ValueError", <<>>))
    ELSE IF base_url # EmptyUrl THEN Ok(UrlJoin(base_url, url))
    ELSE IF DefaultBase # EmptyUrl THEN Ok(UrlJoin(DefaultBase, url))
    ELSE Ok(url)

\* ------------------------------------------------------- canonical record
ArticleInputFields ==
    {"url", "title", "portal_name", "summary", "content_html", "content_text",
     "tags", "published_at_raw", "published_at", "collected_at", "metadata"}
ArticleInputRequired == ArticleInputFields \ {"metadata"}

\* The generated dataclass constructor: an unknown keyword or a missing
\* required field is a TypeError.
ArticleInputInit(kwargs) ==
    IF DOMAIN kwargs \subseteq ArticleInputFields
       /\ ArticleInputRequired \subseteq DOMAIN kwargs
    THEN Ok(kwargs)
    ELSE Raise(Exc("TypeError", <<>>))

\* TextCleaner and DateNormalizer are collaborators: the sanitized markup and
\* the parsed date are uninterpreted functions of their argument, the cleaned
\* summary text (env.summary_text) and whether they raise (env.cleaner,
\* env.date) are drawn by the caller.
SanitizeHtml(html) == <<"sanitized", html>>
DateParse(value) == <<"date", value>>
CollaboratorOutcomes == {"ok", "NormalizeError", "RuntimeError"}
SummaryTexts == {"", "resumo"}

FallbackTitle == "Sem título"

\* Line 245: title = item.title or summary_text or "Sem título".
CanonicalTitle(item_title, summary_text) ==
    IF Truthy(item_title) THEN item_title
    ELSE IF Truthy(summary_text) THEN summary_text
    ELSE FallbackTitle

BuildArticle(item, normalized_url, env) ==
    IF ~Truthy(item.content_html)
    THEN Raise(Exc("FarolError", <<>>))
    ELSE IF env.cleaner # "ok"
    THEN Raise(Exc(env.cleaner, <<>>))
    ELSE IF Truthy(env.published_at) /\ env.date # "ok"
    THEN Raise(Exc(env.date, <<>>))
    ELSE
        LET summary_text == env.summary_text
            title == CanonicalTitle(item.title, summary_text)
            published_at == IF Truthy(env.published_at)
                            THEN DateParse(env.published_at) ELSE <<None>>
        IN ArticleInputInit(
               [url |-> normalized_url,
                title |-> title,
                content |-> SanitizeHtml(item.content_html),
                summary |-> summary_text,
                tags |-> <<>>,
                published_at |-> published_at,
                metadata |-> [normalized_at |-> env.now]])

\* ------------------------------------------------------------- Deduper
DedupFields == <<"title", "tags">>

\* The field of the canonical record whose value is a sequence (tags:
\* Sequence[str]); every other configured value goes through str().
SeqFields == {"tags"}
Tags == {"a", "b"}
CodePointOrder == <<"a", "b">>
Rank(t) == CHOOSE i \in 1..Len(CodePointOrder) : CodePointOrder[i] = t

UnitSeparator == "US"
RecordSeparator == "RS"

\* sep.join(parts): the parts with the separator between neighbours; a part
\* is a sequence of atoms.
RECURSIVE Join(_, _)
Join(sep, parts) ==
    IF parts = <<>> THEN <<>>
    ELSE IF Len(parts) = 1 THEN parts[1]
    ELSE parts[1] \o <<sep>> \o Join(sep, Tail(parts))

\* Mutant of Serialize: the elements of a sequence are joined as they come.
SerializeUnsorted(field, value) ==
    IF field \in SeqFields
    THEN Join(RecordSeparator, [i \in 1..Len(value) |-> <<value[i]>>])
    ELSE <<value>>

\* _serialize, lines 41-44: the elements of a list, tuple or set are
\* serialized, sorted and joined; any other value is str(value).
Serialize(field, value) ==
    IF field \in SeqFields
    THEN LET sorted == SortSeq(value, LAMBDA x, y : Rank(x) < Rank(y))
         IN Join(RecordSeparator, [i \in 1..Len(sorted) |-> <<sorted[i]>>])
    ELSE <<value>>

\* hashlib.sha256(payload).hexdigest(), taken as free of collisions.
Sha256(payload) == <<"sha256", payload>>

\* The digest is injective on the component list: the prefix followed by
\* the serialized value of every configured field the article has (a missing
\* or None field contributes nothing), joined.
Prefix == ""

RECURSIVE Components(_, _)
Components(article, fields) ==
    IF fields = <<>> THEN <<>>
    ELSE LET field == Head(fields)
             rest == Components(article, Tail(fields))
         IN IF field \notin DOMAIN article THEN rest
            ELSE IF field \notin SeqFields /\ article[field] = None THEN rest
            ELSE <<Serialize(field, article[field])>> \o rest

Fingerprint(article) ==
    Sha256(Join(UnitSeparator, <<(<<Prefix>>)>> \o Components(article, DedupFields)))

\* Mutant of IsNew: the fingerprint is tested and not marked.
IsNewUnmarked(fingerprint, seen) ==
    [new |-> fingerprint \notin seen, seen |-> seen]

IsNew(fingerprint, seen) ==
    IF fingerprint \in seen
    THEN [new |-> FALSE, seen |-> seen]
    ELSE [new |-> TRUE, seen |-> seen \cup {fingerprint}]

\* -------------------------------------------------------------- Writer
\* ArticleWriter.write(article, fingerprint): a call with another number of
\* arguments is a TypeError; the store rejects the articles of WriterRejects
\* with WriteError and accepts every other one.
WriterRejects == {AbsUrl("h1", "/a")}

WriterWrite(args) ==
    IF Len(args) # 2 THEN Raise(Exc("TypeError", <<>>))
    ELSE IF args[1].url \in WriterRejects THEN Raise(Exc("WriteError", <<>>))
    ELSE Ok([status |-> "inserted", article_id |-> <<"id", args[1].url>>])

\* ------------------------------------------------------------- metrics
\* Mutant of Incr: the item is counted under a bucket of its own.
IncrOther(skipped, key) == ("other" :> 1) @@ skipped
IncrNone(skipped, key) == skipped

\* metrics["skipped"] is a defaultdict(int): a key exists once counted.
Incr(skipped, key) ==
    IF key \in DOMAIN skipped
    THEN [skipped EXCEPT ![key] = @ + 1]
    ELSE skipped @@ (key :> 1)

VARIABLES
    pc,             \* position of execute(): idle, page, articles (inside
                    \* fetch_page of the HTML scraper), items, finished, aborted
    scraper,        \* self._scraper: "protocol" (any implementation) or
                    \* "requests_soup" (RequestsSoupScraper)
    listing_items,  \* RequestsSoupScraper: what iter_listing returned
    scraped,        \* RequestsSoupScraper: the items list fetch_page is building
    pages,          \* self._pages: the configured pages, each a page URL
    page_index,     \* number of pages whose iteration has started
    items,          \* the list fetch_page returned for the current page
    position,       \* number of items of the current page already handled
    seen_urls,      \* seen_urls of the run
    processed,      \* metrics["processed"]
    skipped,        \* metrics["skipped"]
    pages_fetched,  \* metrics["pages"]["fetched"]
    persisted,      \* the persisted-item records of the run
    deduper_seen,   \* Deduper._seen
    raised,         \* the exception execute() was left with, if any
    trace,          \* history: every collaborator call, in order
    dedup_calls,    \* history of the calls made on the deduper
    doc,            \* HTMLDocument.from_html(html): the node tree
    html_call,      \* the call made on the document and its result
    open_elements,  \* _TreeBuilder.stack: the open elements, the root first
    scrape,         \* RequestsSoupScraper: one listing entry taken through
                    \* extract, parse, fetch_and_parse_article and fetch_page
    plan_call,      \* PaginatedHttpFetcher._build_requests: a call and its result
    mongo           \* MongoArticleWriter: the calls of write, each with the
                    \* update calls it made on the collection and its outcome

vars == <<pc, scraper, listing_items, scraped, pages, page_index, items, position, seen_urls,
          processed, skipped, pages_fetched, persisted, deduper_seen, raised,
          trace, dedup_calls, doc, html_call, open_elements,
          scrape, plan_call, mongo>>

\* The variables of the components checked on their own.
htmlVars == <<doc, html_call, open_elements>>
infraVars == <<scrape, plan_call, mongo>>
auxVars == <<dedup_calls, htmlVars, infraVars>>

NoCall == [op |-> "none"]

HtmlIdle ==
    /\ doc = <<>>
    /\ html_call = NoCall
    /\ open_elements = <<>>

InfraIdle ==
    /\ scrape = NoCall
    /\ plan_call = NoCall
    /\ mongo = <<>>

AuxIdle ==
    /\ dedup_calls = <<>>
    /\ HtmlIdle
    /\ InfraIdle

PageUrl(k) == AbsUrl(pages[k], ListingPath)

\* Line 76: metrics["pages"]["total"].
PagesTotal == Len(pages)

ScrapedItems == [url : RawUrls, title : Titles, content_html : Contents]

RECURSIVE SeqsUpTo(_, _)
SeqsUpTo(S, n) ==
    IF n = 0 THEN {<<>>}
    ELSE LET shorter == SeqsUpTo(S, n - 1)
         IN shorter \cup {Append(s, x) : s \in {t \in shorter : Len(t) = n - 1}, x \in S}

Init ==
    /\ pc = "idle"
    /\ scraper \in {"protocol", "requests_soup"}
    /\ listing_items = <<>>
    /\ scraped = <<>>
    /\ pages \in SeqsUpTo(Hosts, MaxPages)
    /\ page_index = 0
    /\ items = <<>>
    /\ position = 0
    /\ seen_urls = {}
    /\ processed = 0
    /\ skipped = <<>>
    /\ pages_fetched = 0
    /\ persisted = <<>>
    /\ deduper_seen = {}
    /\ raised = NoExc
    /\ trace = <<>>
    /\ AuxIdle

\* ------------------------------------------------------------ execute()
\* Mutant of SeenUrl: the seen-URL test never hits.
SeenUrlNever(url, seen) == FALSE

\* Line 122: the seen-URL test.
SeenUrl(url, seen) == url \in seen

\* Lines 145 and 178: the item-level handlers catch FarolError only.
CaughtAsItemError(e) == IsFarolError(e)

\* Mutant of PageErrorRaised: every page-level exception is wrapped.
PageErrorAlwaysWrapped(e) == Exc("FarolError", <<e>>)

\* Lines 95-106: what execute() raises for an exception e of fetch_page.
PageErrorRaised(e) ==
    IF IsFarolError(e) THEN e ELSE Exc("FarolError", <<e>>)

\* Mutant of AfterPageError: the failure is logged and the loop goes on.
AfterPageErrorContinue == "page"

\* Lines 100 and 106: both handlers raise, which ends execute().
AfterPageError == "aborted"

\* What the collaborators do during one iteration: the cleaner fails or not,
\* the item has a published-at string or not and, if it has, the date
\* normalizer fails or not.
ItemEnvs ==
    {env \in [cleaner : CollaboratorOutcomes, date : CollaboratorOutcomes,
              published_at : PublishedValues, summary_text : SummaryTexts,
              now : Times] :
        /\ env.cleaner # "ok" => env.date = "ok" /\ env.published_at = None
        /\ env.published_at = None => env.date = "ok"
        /\ env.summary_text = "" => ~Truthy(env.published_at) /\ env.cleaner = "ok"}

\* Line 138: seen_urls.add(normalized_url).
SetAddNothing(set, element) == set
SetAdd(set, element) == set \cup {element}

\* Lines 120-214: one iteration of the item loop, for the item at position p
\* of page k.  The result names the new values of the variables it touches
\* and the calls it made (events).
LoopBody(item, k, p, env) ==
    LET cur == [pc |-> "items", seen_urls |-> seen_urls, processed |-> processed,
                skipped |-> skipped, persisted |-> persisted,
                deduper_seen |-> deduper_seen, raised |-> NoExc, events |-> <<>>]
        abs == ToAbsolute(item.url, PageUrl(k))
        e1 == <<Ev("to_absolute", k, p, IF abs.ok THEN abs.val ELSE item.url,
                   IF abs.ok THEN "ok" ELSE abs.exc.cls, abs.exc)>>
    IN
    IF ~abs.ok
    THEN [cur EXCEPT !.pc = "aborted", !.raised = abs.exc, !.events = e1]
    ELSE IF SeenUrl(abs.val, seen_urls)
    THEN [cur EXCEPT !.skipped = Incr(@, "url"),
                     !.events = e1 \o <<Ev("skip", k, p, abs.val, "url", NoExc)>>]
    ELSE
    LET built == BuildArticle(item, abs.val, env)
        e2 == e1 \o <<Ev("build_article", k, p, abs.val,
                         IF built.ok THEN "ok" ELSE built.exc.cls, built.exc)>>
        marked == [cur EXCEPT !.seen_urls = SetAdd(@, abs.val)]
    IN
    IF ~built.ok /\ CaughtAsItemError(built.exc)
    THEN [marked EXCEPT !.skipped = Incr(@, "invalid"),
                        !.events = e2 \o <<Ev("skip", k, p, abs.val, "invalid", built.exc)>>]
    ELSE IF ~built.ok
    THEN [marked EXCEPT !.pc = "aborted", !.raised = built.exc, !.events = e2]
    ELSE
    LET article == built.val
        fingerprint == Fingerprint(article)
        isnew == IsNew(fingerprint, deduper_seen)
        e3 == e2 \o <<Ev("fingerprint", k, p, abs.val, "ok", NoExc),
                      Ev("is_new", k, p, abs.val,
                         IF isnew.new THEN "true" ELSE "false", NoExc)>>
        deduped == [marked EXCEPT !.deduper_seen = isnew.seen]
    IN
    IF ~isnew.new
    THEN [deduped EXCEPT !.skipped = Incr(@, "fingerprint"),
                         !.events = e3 \o <<Ev("skip", k, p, abs.val, "fingerprint", NoExc)>>]
    ELSE
    LET args == <<article>>
        written == WriterWrite(args)
        e4 == e3 \o <<EvArgs("write", k, p, abs.val,
                             IF written.ok THEN "ok" ELSE written.exc.cls,
                             written.exc, args)>>
    IN
    IF ~written.ok /\ CaughtAsItemError(written.exc)
    THEN [deduped EXCEPT !.skipped = Incr(@, "write"),
                         !.events = e4 \o <<Ev("skip", k, p, abs.val, "write", written.exc)>>]
    ELSE IF ~written.ok
    THEN [deduped EXCEPT !.pc = "aborted", !.raised = written.exc, !.events = e4]
    ELSE [deduped EXCEPT
            !.processed = @ + 1,
            !.persisted = Append(@, [url |-> article.url,
                                     article_id |-> written.val,
                                     fingerprint |-> fingerprint,
                                     processed_at |-> env.now]),
            !.events = e4 \o <<Ev("persist", k, p, abs.val, "ok", NoExc)>>]

\* Lines 69-88: execute() starts a run.
Start ==
    /\ pc = "idle"
    /\ UNCHANGED auxVars
    /\ pc' = "page"
    /\ seen_urls' = {}
    /\ processed' = 0
    /\ skipped' = <<>>
    /\ pages_fetched' = 0
    /\ persisted' = <<>>
    /\ page_index' = 0
    /\ trace' = Append(trace, Ev("start", 0, 0, EmptyUrl, "ok", NoExc))
    /\ UNCHANGED <<scraper, listing_items, scraped, pages, items, position,
                   deduper_seen, raised>>

\* Lines 90-118 with a scraper that is any implementation of the protocol
\* (lines 35-40): fetch_page returns a list of items or raises.
ProtocolErrors ==
    {Exc("FarolError", <<>>), Exc("FetchError", <<>>), Exc("ParseError", <<>>),
     Exc("ValueError", <<>>)}

\* Mutant of FetchPageFailed: fetch_page returns the items it had built when
\* the failure came.
FetchPagePartial(k, e, events) ==
    /\ pc' = "items"
    /\ page_index' = k
    /\ items' = scraped
    /\ position' = 0
    /\ pages_fetched' = pages_fetched + 1
    /\ trace' = trace \o events \o <<Ev("fetch_page", k, Len(scraped), PageUrl(k), "ok", NoExc)>>
    /\ UNCHANGED <<scraper, pages, seen_urls, processed, skipped, persisted,
                   deduper_seen, raised>>

FetchPageFailed(k, e, events) ==
    /\ pc' = AfterPageError
    /\ raised' = PageErrorRaised(e)
    /\ page_index' = k
    /\ trace' = trace \o events \o <<Ev("fetch_page", k, 0, PageUrl(k), e.cls, e)>>
    /\ UNCHANGED <<scraper, pages, items, position, seen_urls, processed,
                   skipped, pages_fetched, persisted, deduper_seen>>

FetchPageReturned(k, list, events) ==
    /\ pc' = "items"
    /\ page_index' = k
    /\ items' = list
    /\ position' = 0
    /\ pages_fetched' = pages_fetched + 1
    /\ trace' = trace \o events \o <<Ev("fetch_page", k, Len(list), PageUrl(k), "ok", NoExc)>>
    /\ UNCHANGED <<scraper, pages, seen_urls, processed, skipped, persisted,
                   deduper_seen, raised>>

FetchPage ==
    /\ pc = "page"
    /\ scraper = "protocol"
    /\ UNCHANGED auxVars
    /\ page_index < Len(pages)
    /\ UNCHANGED <<listing_items, scraped>>
    /\ LET k == page_index + 1 IN
       \/ \E e \in ProtocolErrors : FetchPageFailed(k, e, <<>>)
       \/ \E list \in SeqsUpTo(ScrapedItems, MaxItems) :
              FetchPageReturned(k, list, <<>>)

\* ------------------------------------------------- RequestsSoupScraper
\* SoupListingParser.extract, lines 123-127: an entry without a link value
\* is skipped.
HasLink(href) == href # EmptyUrl

\* Mutant of NormalizedListing: an entry whose absolute URL already occurs
\* earlier in the listing is dropped.
RECURSIVE ListingWithoutRepeats(_, _)
ListingWithoutRepeats(hrefs, fetched_url) ==
    IF hrefs = <<>> THEN <<>>
    ELSE LET n == Len(hrefs)
             front == ListingWithoutRepeats(SubSeq(hrefs, 1, n - 1), fetched_url)
             last == hrefs[n]
         IN IF last = EmptyUrl THEN front
            ELSE LET u == ToAbsolute(last, fetched_url).val
                 IN IF \E i \in 1..Len(front) : front[i] = u
                    THEN front ELSE Append(front, u)

\* iter_listing, lines 316-342: every extracted entry, in order, with its
\* URL made absolute against the URL the listing was fetched from.
RECURSIVE NormalizedListing(_, _)
NormalizedListing(hrefs, fetched_url) ==
    IF hrefs = <<>> THEN <<>>
    ELSE LET rest == NormalizedListing(Tail(hrefs), fetched_url)
         IN IF HasLink(Head(hrefs))
            THEN <<ToAbsolute(Head(hrefs), fetched_url).val>> \o rest
            ELSE rest

\* The titles the article pages carry.
ArticleTitles == {"T1"}

\* fetch_page, lines 284-291, and fetch_and_parse_article, lines 349-357:
\* the exception fetch_page raises when the article step of an entry fails.
\* A failed request is a FetchError, a ParseError of the parser is re-raised
\* and any other exception is wrapped in a ParseError.
ArticleOutcomes == {"ok", "http_error", "ParseError", "RuntimeError"}

\* Mutant of ArticleErrorRaised: an unexpected exception is not wrapped.
ArticleErrorUnwrapped(outcome) ==
    IF outcome = "http_error" THEN Exc("FetchError", <<Exc("RuntimeError", <<>>)>>)
    ELSE Exc(outcome, <<>>)

ArticleErrorRaised(outcome) ==
    IF outcome = "http_error" THEN Exc("FetchError", <<Exc("RuntimeError", <<>>)>>)
    ELSE IF outcome = "ParseError" THEN Exc("ParseError", <<>>)
    ELSE Exc("ParseError", <<Exc(outcome, <<>>)>>)

RECURSIVE EntryEvents(_, _, _)
EntryEvents(hrefs, k, i) ==
    IF hrefs = <<>> THEN <<>>
    ELSE <<Ev("entry", k, i, Head(hrefs), "extracted", NoExc)>>
         \o EntryEvents(Tail(hrefs), k, i + 1)

\* fetch_page, lines 278-283: the listing of the page is requested and its
\* entries extracted.  The pagination record is read before any request
\* (lines 64-82): a value that is no integer is a ValueError.
ListingOutcomes == {"http_error", "ValueError"}

FetchListing ==
    /\ pc = "page"
    /\ scraper = "requests_soup"
    /\ UNCHANGED auxVars
    /\ page_index < Len(pages)
    /\ LET k == page_index + 1 IN
       \/ \E out \in ListingOutcomes :
             /\ FetchPageFailed(
                    k,
                    IF out = "http_error"
                    THEN Exc("FetchError", <<Exc("RuntimeError", <<>>)>>)
                    ELSE Exc(out, <<>>),
                    IF out = "http_error"
                    THEN <<Ev("get_listing", k, 0, PageUrl(k), out, NoExc)>>
                    ELSE <<>>)
             /\ UNCHANGED <<listing_items, scraped>>
       \/ \E final \in Hosts, hrefs \in SeqsUpTo(RawUrls, MaxItems) :
             LET fetched_url == AbsUrl(final, ListingPath) IN
             /\ pc' = "articles"
             /\ page_index' = k
             /\ listing_items' = NormalizedListing(hrefs, fetched_url)
             /\ scraped' = <<>>
             /\ trace' = trace \o <<Ev("get_listing", k, 0, PageUrl(k), "ok", NoExc)>>
                                \o EntryEvents(hrefs, k, 1)
             /\ UNCHANGED <<scraper, pages, items, position, seen_urls, processed,
                            skipped, pages_fetched, persisted, deduper_seen, raised>>

\* fetch_page, lines 283-313: one iteration, the article of the next entry.
FetchArticle ==
    /\ pc = "articles"
    /\ Len(scraped) < Len(listing_items)
    /\ UNCHANGED auxVars
    /\ LET k == page_index
           i == Len(scraped) + 1
           url == listing_items[i]
       IN \E out \in ArticleOutcomes, title \in ArticleTitles, body \in Contents :
            IF out = "ok"
            THEN /\ scraped' = Append(scraped, [url |-> url, title |-> title,
                                                content_html |-> body])
                 /\ trace' = Append(trace, Ev("get_article", k, i, url, "ok", NoExc))
                 /\ UNCHANGED <<pc, scraper, listing_items, pages, page_index, items,
                                position, seen_urls, processed, skipped,
                                pages_fetched, persisted, deduper_seen, raised>>
            ELSE /\ FetchPageFailed(k, ArticleErrorRaised(out),
                                    <<Ev("get_article", k, i, url, out, NoExc)>>)
                 /\ UNCHANGED <<listing_items, scraped>>

\* fetch_page, line 314: every entry is done, the items are returned.
PageScraped ==
    /\ pc = "articles"
    /\ Len(scraped) = Len(listing_items)
    /\ UNCHANGED auxVars
    /\ FetchPageReturned(page_index, scraped, <<>>)
    /\ UNCHANGED <<listing_items, scraped>>

ProcessItem ==
    /\ pc = "items"
    /\ position < Len(items)
    /\ UNCHANGED auxVars
    /\ \E env \in ItemEnvs :
         LET r == LoopBody(items[position + 1], page_index, position + 1, env) IN
         /\ pc' = r.pc
         /\ seen_urls' = r.seen_urls
         /\ processed' = r.processed
         /\ skipped' = r.skipped
         /\ persisted' = r.persisted
         /\ deduper_seen' = r.deduper_seen
         /\ raised' = r.raised
         /\ trace' = trace \o r.events
         /\ position' = position + 1
    /\ UNCHANGED <<scraper, listing_items, scraped, pages, page_index, items,
                   pages_fetched>>

\* Mutant of PageExhausted: the page loop moves on at any time.
PageExhaustedAnyTime == TRUE

\* Line 120: the item loop ends when every item of the page was iterated.
PageExhausted == position = Len(items)

\* Line 90: the item loop of the page is exhausted, on to the next page.
NextPage ==
    /\ pc = "items"
    /\ PageExhausted
    /\ UNCHANGED auxVars
    /\ pc' = "page"
    /\ UNCHANGED <<scraper, listing_items, scraped, pages, page_index, items,
                   position, seen_urls, processed, skipped, pages_fetched,
                   persisted, deduper_seen, raised, trace>>

\* Lines 216-228: every page is done; the run returns {metrics, items}.
Finish ==
    /\ pc = "page"
    /\ page_index = Len(pages)
    /\ UNCHANGED auxVars
    /\ pc' = "finished"
    /\ trace' = Append(trace, Ev("finish", page_index, 0, EmptyUrl, "ok", NoExc))
    /\ UNCHANGED <<scraper, listing_items, scraped, pages, page_index, items,
                   position, seen_urls, processed, skipped, pages_fetched,
                   persisted, deduper_seen, raised>>

Next ==
    \/ Start
    \/ FetchPage
    \/ FetchListing
    \/ FetchArticle
    \/ PageScraped
    \/ ProcessItem
    \/ NextPage
    \/ Finish

Spec == Init /\ [][Next]_vars

\* ---------------------------------------------------------------- claims
Idx == 1..Len(trace)
IsEv(i, op) == trace[i].op = op
FailedEv(i, op) == trace[i].op = op /\ trace[i].info # "ok"
ItemEvents(k, p, ops) ==
    {i \in Idx : trace[i].page = k /\ trace[i].pos = p /\ trace[i].op \in ops}
SkippedCount(key) == IF key \in DOMAIN skipped THEN skipped[key] ELSE 0
RunEnded == pc \in {"finished", "aborted"}
PageLevelAbort == pc = "aborted" /\ trace # <<>> /\ FailedEv(Len(trace), "fetch_page")

\* The item at position j of the history resolved to an absolute URL that an
\* earlier item of the run resolved to.
DuplicateResolution(j) ==
    /\ IsEv(j, "to_absolute") /\ trace[j].info = "ok"
    /\ \E i \in 1..(j - 1) :
         IsEv(i, "to_absolute") /\ trace[i].info = "ok" /\ trace[i].url = trace[j].url

\* C1: an item whose URL resolves to an absolute URL already resolved earlier
\* in the run (same page or an earlier one) is counted under skipped.url,
\* once, and is never handed to record construction, Deduper.fingerprint,
\* Deduper.is_new or Writer.write.
C1_DuplicateUrlSkipped ==
    /\ \A j \in Idx : DuplicateResolution(j) =>
         /\ j < Len(trace)
         /\ trace[j + 1] = Ev("skip", trace[j].page, trace[j].pos, trace[j].url,
                              "url", NoExc)
         /\ ItemEvents(trace[j].page, trace[j].pos,
                       {"build_article", "fingerprint", "is_new", "write", "persist"}) = {}
    /\ SkippedCount("url") = Cardinality({j \in Idx : DuplicateResolution(j)})

\* A finished run in which an item of the second page repeated a URL of the
\* first page.
C1_Witness ==
    /\ pc = "finished"
    /\ \E j \in Idx : DuplicateResolution(j) /\ trace[j].page = 2
         /\ \E i \in 1..(j - 1) :
              IsEv(i, "to_absolute") /\ trace[i].url = trace[j].url /\ trace[i].page = 1

\* The first item of the run can be made a canonical record: it has a URL and
\* a body and no collaborator failed while it was built.
FirstItemBuildable ==
    /\ page_index >= 1 /\ pc \in {"items", "page", "finished", "aborted"}
    /\ \E i \in Idx :
         /\ IsEv(i, "build_article") /\ trace[i].info \in {"ok", "TypeError"}
         /\ \A h \in 1..(i - 1) : ~IsEv(h, "build_article")
         /\ \A h \in 1..(i - 1) : ~IsEv(h, "skip")

FirstBuild == CHOOSE i \in Idx : IsEv(i, "build_article") /\ \A h \in 1..(i - 1) : ~IsEv(h, "build_article")

\* C2 (as claimed): of two items of a page with different absolute URLs and
\* the same fingerprint, the first is written and counted as processed and
\* the second is counted under skipped.fingerprint and never written.
C2_SecondOfSameFingerprintSkipped ==
    (RunEnded /\ ~PageLevelAbort /\ FirstItemBuildable
       /\ page_index = trace[FirstBuild].page) =>
      LET k == trace[FirstBuild].page
          p == trace[FirstBuild].pos
      IN \A q \in (p + 1)..Len(items) :
           ( /\ Truthy(items[q].content_html)
             /\ items[q].url # EmptyUrl
             /\ ToAbsolute(items[q].url, PageUrl(k)).val # trace[FirstBuild].url
             /\ items[q].title = items[p].title
             /\ \A h \in Idx : IsEv(h, "build_article") /\ trace[h].pos = q
                                 => trace[h].info \in {"ok", "TypeError"} )
           => /\ ItemEvents(k, p, {"write"}) # {}
              /\ processed >= 1
              /\ \E h \in ItemEvents(k, q, {"skip"}) : trace[h].info = "fingerprint"
              /\ ItemEvents(k, q, {"write"}) = {}

\* C3: once fetch_page has failed for a page, fetch_page is not invoked for a
\* later page and no request, fingerprint, is_new or write call follows.
C3_PageFailureAborts ==
    \A j \in Idx : FailedEv(j, "fetch_page") =>
        /\ pc = "aborted"
        /\ \A i \in (j + 1)..Len(trace) :
             trace[i].op \notin {"fetch_page", "get_listing", "get_article",
                                 "fingerprint", "is_new", "write"}

\* fetch_page failed for the first of two configured pages.
C3_Witness ==
    /\ Len(pages) = 2
    /\ \E j \in Idx : FailedEv(j, "fetch_page") /\ trace[j].page = 1

\* C4: a page-level failure that is a FarolError (or a subclass) leaves
\* execute() as that very exception; any other exception leaves it as a
\* FarolError whose cause is the original exception.
C4_PageErrorPropagation ==
    \A j \in Idx : FailedEv(j, "fetch_page") =>
        LET e == trace[j].exc IN
        IF e.cls \in FarolErrorClasses
        THEN raised = e
        ELSE raised.cls = "FarolError" /\ raised.cause = <<e>>

\* fetch_page raised a ValueError and execute() was left with the wrapper.
C4_Witness ==
    /\ pc = "aborted"
    /\ raised = Exc("FarolError", <<Exc("ValueError", <<>>)>>)

\* C5 (as claimed): every failure while the canonical record of an item is
\* built is counted under skipped.invalid and the run goes on with the next
\* item; processed, persisted and the other counters stay as they were.
C5_BuildFailureCounted ==
    \A j \in Idx : FailedEv(j, "build_article") =>
        /\ j < Len(trace)
        /\ trace[j + 1].op = "skip" /\ trace[j + 1].info = "invalid"
        /\ ~(pc = "aborted" /\ j = Len(trace))

\* C6 (as claimed): when the writer fails for an item, the item is counted
\* under skipped.write, it is neither counted as processed nor recorded among
\* the persisted items, and the run goes on.
C6_WriteFailureCounted ==
    (RunEnded /\ ~PageLevelAbort /\ FirstItemBuildable
       /\ trace[FirstBuild].url \in WriterRejects) =>
      /\ \E h \in ItemEvents(trace[FirstBuild].page, trace[FirstBuild].pos, {"skip"}) :
           trace[h].info = "write"
      /\ SkippedCount("write") >= 1
      /\ \A r \in 1..Len(persisted) : persisted[r].url # trace[FirstBuild].url
      /\ ~(pc = "aborted" /\ trace[Len(trace)].page = trace[FirstBuild].page
                          /\ trace[Len(trace)].pos = trace[FirstBuild].pos)

\* C7 (as claimed): a failure of the article request or of the article
\* extraction of one listing entry is counted into a skipped bucket and does
\* not keep the other entries and pages from being processed.
C7_ArticleFailureIsolated ==
    \A j \in Idx : FailedEv(j, "get_article") =>
        /\ pc # "aborted"
        /\ \E key \in DOMAIN skipped : skipped[key] >= 1

\* C7 (amended): a failure of the article step of one listing entry makes
\* fetch_page raise a FetchError or a ParseError; execute() takes it as a
\* page-level failure and is left with that very error, no item of the page
\* reaches the item loop, the page is not counted as fetched and nothing
\* follows.
C7_ArticleFailureAbortsRun ==
    \A j \in Idx : FailedEv(j, "get_article") =>
        /\ j + 1 = Len(trace)
        /\ FailedEv(j + 1, "fetch_page") /\ trace[j + 1].page = trace[j].page
        /\ pc = "aborted"
        /\ raised = trace[j + 1].exc
        /\ raised.cls \in {"FetchError", "ParseError"}
        /\ pages_fetched = trace[j].page - 1
        /\ \A i \in Idx : IsEv(i, "to_absolute") => trace[i].page < trace[j].page

\* The article of the second entry of a page failed after the first one was
\* fetched.
C7_Witness ==
    \E j \in Idx : FailedEv(j, "get_article") /\ trace[j].pos = 2

C9_WriteGetsArticleAndFingerprint ==
    /\ \A j \in Idx : IsEv(j, "write") =>
         Len(trace[j].args) = 2 /\ trace[j].args[2] = Fingerprint(trace[j].args[1])
    /\ (RunEnded /\ ~PageLevelAbort /\ FirstItemBuildable
          /\ trace[FirstBuild].url \notin WriterRejects) =>
         ItemEvents(trace[FirstBuild].page, trace[FirstBuild].pos, {"write"}) # {}

\* C10 (as claimed): an item whose write succeeds adds one to processed and
\* one record to items, with the item's absolute URL, its fingerprint, the
\* article id and the status of the writer's result and the clock reading.
C10_PersistedRecord ==
    (RunEnded /\ ~PageLevelAbort /\ FirstItemBuildable
       /\ trace[FirstBuild].url \notin WriterRejects) =>
      /\ processed >= 1
      /\ Len(persisted) = processed
      /\ persisted[1].url = trace[FirstBuild].url
      /\ persisted[1].article_id = <<"id", trace[FirstBuild].url>>
      /\ "status" \in DOMAIN persisted[1]
      /\ persisted[1].processed_at \in Times

\* C11 (as claimed): execute() raises only the error of a failed fetch_page
\* call, which is a FarolError; no item-level step makes it raise.
C11_OnlyPageErrorsRaise ==
    pc = "aborted" => PageLevelAbort /\ IsFarolError(raised)

\* The number of items of page k that reached their final outcome: only the
\* last event of an iteration is a skip, a persist or the failed call that
\* left execute().
Outcomes(k) ==
    {i \in Idx : trace[i].page = k /\ trace[i].pos >= 1
                 /\ (\/ trace[i].op \in {"skip", "persist"}
                     \/ i = Len(trace) /\ pc = "aborted"
                        /\ trace[i].op \in {"to_absolute", "build_article", "write"})}

\* The item-loop events of the history, in order.
ItemOps == {"to_absolute", "build_article", "fingerprint", "is_new", "write",
            "persist", "skip"}

\* C12: pages are fetched in configuration order, the fetch of page k + 1
\* comes after the final outcome of every item of page k, the item-loop
\* events (the writes among them) come in increasing (page, position) order
\* and so do the records of the returned items list.
C12_ConfigurationAndExtractionOrder ==
    /\ \A j \in Idx : IsEv(j, "fetch_page") =>
         trace[j].page = 1 + Cardinality({i \in 1..(j - 1) : IsEv(i, "fetch_page")})
    /\ \A j \in Idx : (IsEv(j, "fetch_page") /\ trace[j].page >= 2) =>
         \E i \in 1..(j - 1) :
            /\ IsEv(i, "fetch_page") /\ trace[i].info = "ok"
            /\ trace[i].page = trace[j].page - 1
            /\ Cardinality({h \in Outcomes(trace[i].page) : h < j}) = trace[i].pos
    /\ \A i, j \in Idx :
         (i < j /\ trace[i].op \in ItemOps /\ trace[j].op \in ItemOps) =>
            \/ trace[i].page < trace[j].page
            \/ trace[i].page = trace[j].page /\ trace[i].pos <= trace[j].pos
    /\ \A i, j \in Idx :
         (i < j /\ IsEv(i, "write") /\ IsEv(j, "write")) =>
            \/ trace[i].page < trace[j].page
            \/ trace[i].page = trace[j].page /\ trace[i].pos < trace[j].pos
    /\ Len(persisted) = Cardinality({i \in Idx : IsEv(i, "persist")})

\* A finished run over two pages of two items each: the four items reached
\* their outcome one after the other.
C12_Witness ==
    /\ pc = "finished" /\ Len(pages) = 2
    /\ Cardinality(Outcomes(1)) = 2 /\ Cardinality(Outcomes(2)) = 2

\* C13: pages.total is the number of configured pages, pages.fetched is the
\* number of pages whose fetch succeeded, never above pages.total and equal
\* to it on a completed run, and skipped has only the keys url, fingerprint,
\* invalid and write, each with a positive count.
C13_MetricsShape ==
    /\ PagesTotal = Len(pages)
    /\ pages_fetched =
         Cardinality({i \in Idx : IsEv(i, "fetch_page") /\ trace[i].info = "ok"})
    /\ pages_fetched <= PagesTotal
    /\ pc = "finished" => pages_fetched = PagesTotal
    /\ DOMAIN skipped \subseteq {"url", "fingerprint", "invalid", "write"}
    /\ \A key \in DOMAIN skipped : skipped[key] \in Nat /\ skipped[key] >= 1
    /\ processed \in Nat

\* A completed run over two pages with items counted under two reasons.
C13_Witness ==
    /\ pc = "finished" /\ PagesTotal = 2 /\ pages_fetched = 2
    /\ DOMAIN skipped = {"url", "invalid"}

\* ------------------------------------------------------- Sha256Deduper
\* The deduper on its own: calls of is_new, and the orchestrator that holds
\* it starting one execute() after another.
useCaseVars == <<pc, scraper, listing_items, scraped, pages, page_index, items,
                 position, processed, skipped, pages_fetched, persisted, raised,
                 trace>>

UseCaseIdle ==
    /\ pc = "idle"
    /\ scraper = "protocol"
    /\ listing_items = <<>>
    /\ scraped = <<>>
    /\ pages = <<>>
    /\ page_index = 0
    /\ items = <<>>
    /\ position = 0
    /\ processed = 0
    /\ skipped = <<>>
    /\ pages_fetched = 0
    /\ persisted = <<>>
    /\ raised = NoExc
    /\ trace = <<>>

\* The canonical records fingerprints are taken of.
CanonicalRecords ==
    [url : {AbsUrl("h1", "/a"), AbsUrl("h2", "/a")}, title : Titles,
     tags : SeqsUpTo(Tags, MaxTags)]

IsNewArguments == {Fingerprint(a) : a \in {r \in CanonicalRecords : r.tags = <<>>}}

Call(op, arg, result) == [op |-> op, arg |-> arg, result |-> result]

\* Lines 14-23: the constructor as build_deduper calls it (line 59), with no
\* seen store: self._seen is a new empty set.
InitDeduper ==
    /\ UseCaseIdle
    /\ HtmlIdle
    /\ InfraIdle
    /\ seen_urls = {}
    /\ deduper_seen = {}
    /\ dedup_calls = <<>>

\* Lines 35-39: one call of is_new.
DeduperIsNew ==
    /\ Len(dedup_calls) < MaxCalls
    /\ \E f \in IsNewArguments :
         LET r == IsNew(f, deduper_seen) IN
         /\ deduper_seen' = r.seen
         /\ dedup_calls' = Append(dedup_calls, Call("is_new", f, r.new))
    /\ UNCHANGED seen_urls
    /\ UNCHANGED <<useCaseVars, htmlVars, infraVars>>

\* collect_usecase.py line 138: the item loop records a URL as seen.
SeenUrlsAdd ==
    /\ Len(dedup_calls) < MaxCalls
    /\ \E h \in Hosts :
         /\ seen_urls' = seen_urls \cup {AbsUrl(h, "/a")}
         /\ dedup_calls' = Append(dedup_calls, Call("seen_urls.add", AbsUrl(h, "/a"), TRUE))
    /\ UNCHANGED deduper_seen
    /\ UNCHANGED <<useCaseVars, htmlVars, infraVars>>

\* collect_usecase.py lines 69-78: execute() starts; seen_urls is a new set
\* and self._deduper is the object the orchestrator was constructed with.
ExecuteStarts ==
    /\ Len(dedup_calls) < MaxCalls
    /\ seen_urls' = {}
    /\ dedup_calls' = Append(dedup_calls, Call("execute", <<>>, TRUE))
    /\ UNCHANGED deduper_seen
    /\ UNCHANGED <<useCaseVars, htmlVars, infraVars>>

NextDeduper ==
    \/ DeduperIsNew
    \/ SeenUrlsAdd
    \/ ExecuteStarts

SpecDeduper == InitDeduper /\ [][NextDeduper]_vars

\* Sha256Deduper.fingerprint on its own: the digests of a few records.
InitFingerprint ==
    /\ UseCaseIdle
    /\ HtmlIdle
    /\ InfraIdle
    /\ seen_urls = {}
    /\ deduper_seen = {}
    /\ dedup_calls = <<>>

\* Lines 25-33: one call of fingerprint.
DeduperFingerprint ==
    /\ Len(dedup_calls) < MaxFingerprints
    /\ \E article \in CanonicalRecords :
         dedup_calls' = Append(dedup_calls,
                               Call("fingerprint", article, Fingerprint(article)))
    /\ UNCHANGED <<seen_urls, deduper_seen>>
    /\ UNCHANGED <<useCaseVars, htmlVars, infraVars>>

NextFingerprint ==
    \/ DeduperFingerprint

SpecFingerprint == InitFingerprint /\ [][NextFingerprint]_vars

CallIdx == 1..Len(dedup_calls)
IsCall(i, op) == dedup_calls[i].op = op

\* C14 (as claimed): an execute() that starts on the orchestrator finds an
\* empty seen-URL set and an empty seen-fingerprint set, whatever earlier
\* runs have seen (the deduper was built without a seen store).
C14_RunStartsWithEmptyDedupState ==
    (dedup_calls # <<>> /\ IsCall(Len(dedup_calls), "execute"))
      => seen_urls = {} /\ deduper_seen = {}

\* C15: is_new(f) returns true exactly on the first call made with f and
\* false on every later call with f, whatever calls were made with other
\* fingerprints or runs started in between; the fingerprints marked are
\* those asked about.
C15_TrueExactlyOnFirstCall ==
    /\ \A i \in CallIdx : IsCall(i, "is_new") =>
         (dedup_calls[i].result
            <=> ~\E j \in 1..(i - 1) :
                   IsCall(j, "is_new") /\ dedup_calls[j].arg = dedup_calls[i].arg)
    /\ deduper_seen =
         {dedup_calls[i].arg : i \in {j \in CallIdx : IsCall(j, "is_new")}}

\* Three calls: f, another fingerprint, f again.
C15_Witness ==
    /\ Len(dedup_calls) = 3
    /\ \A i \in CallIdx : IsCall(i, "is_new")
    /\ dedup_calls[1].arg = dedup_calls[3].arg
    /\ dedup_calls[1].arg # dedup_calls[2].arg
    /\ dedup_calls[1].result /\ dedup_calls[2].result /\ ~dedup_calls[3].result

\* Two records that differ at most in the order of their tags.
Occurrences(seq, x) == Cardinality({i \in 1..Len(seq) : seq[i] = x})
SameUpToOrder(a, b) ==
    /\ a.url = b.url /\ a.title = b.title
    /\ \A t \in Tags : Occurrences(a.tags, t) = Occurrences(b.tags, t)

\* C20: the fingerprint of an unchanged record is always the same digest,
\* and two records that differ only in the order of the elements of their
\* tags get the same digest.
C20_DeterministicOrderInsensitive ==
    \A i, j \in CallIdx :
        (IsCall(i, "fingerprint") /\ IsCall(j, "fingerprint")
           /\ SameUpToOrder(dedup_calls[i].arg, dedup_calls[j].arg))
          => dedup_calls[i].result = dedup_calls[j].result

\* The digests of a record tagged (a, b) and of the same record tagged
\* (b, a) were taken.
C20_Witness ==
    /\ Len(dedup_calls) = 2
    /\ IsCall(1, "fingerprint") /\ IsCall(2, "fingerprint")
    /\ dedup_calls[1].arg.tags = <<"a", "b">>
    /\ dedup_calls[2].arg.tags = <<"b", "a">>
    /\ dedup_calls[1].arg.url = dedup_calls[2].arg.url
    /\ dedup_calls[1].arg.title = dedup_calls[2].arg.title
    /\ dedup_calls[1].result = dedup_calls[2].result

\* ------------------------------------------------- html_tree, text_cleaner
\* A document is the heap of its nodes: node 0 is the root sentinel, nodes
\* 1..n are the elements in the order their start tags were read.  A node
\* has its tag, its attributes, its parent pointer (<<>> for None) and its
\* list of children, each a text or a node.
Root == 0
RootTag == "__root__"
NodeItem(n) == [kind |-> "node", id |-> n]
TextItem(n) == [kind |-> "text", id |-> n]
NoAttrs == [a \in {} |-> ""]

\* The elements the documents are made of: tag and attributes.
NodeKinds ==
    {[tag |-> "div", attrs |-> NoAttrs],
     [tag |-> "div", attrs |-> ("class" :> <<"c">>) @@ ("onclick" :> "e()")],
     [tag |-> "p", attrs |-> ("id" :> "i") @@ ("title" :> "t")],
     [tag |-> "a", attrs |-> ("href" :> [scheme |-> "JavaScript", rest |-> "alert(1)"])
                             @@ ("class" :> <<"c">>)],
     [tag |-> "a", attrs |-> ("href" :> [scheme |-> "http", rest |-> "//h1/a"])],
     [tag |-> "script", attrs |-> NoAttrs]}

\* _TreeBuilder, lines 108-117: a start tag is appended to the node on top
\* of the stack, so the parent of element i is element i - 1 or one of its
\* ancestors (the root among them).
RECURSIVE OpenChain(_, _)
OpenChain(par, k) == IF k = Root THEN {Root} ELSE {k} \cup OpenChain(par, par[k])

RECURSIVE Shapes(_)
Shapes(n) ==
    IF n = 0 THEN {<<>>}
    ELSE UNION {{Append(par, q) : q \in OpenChain(par, n - 1)} : par \in Shapes(n - 1)}

ChildrenOf(par, i) ==
    LET ids == SelectSeq([j \in 1..Len(par) |-> j], LAMBDA j : par[j] = i)
    IN [x \in 1..Len(ids) |-> NodeItem(ids[x])]

\* Every element holds one text followed by its child elements.
BuildDocument(kinds, par) ==
    [i \in 0..Len(par) |->
        IF i = Root
        THEN [tag |-> RootTag, attrs |-> NoAttrs, parent |-> <<>>,
              children |-> ChildrenOf(par, Root)]
        ELSE [tag |-> kinds[i].tag, attrs |-> kinds[i].attrs, parent |-> <<par[i]>>,
              children |-> <<TextItem(i)>> \o ChildrenOf(par, i)]]

Elements(h) == DOMAIN h \ {Root}

\* iter_descendants, lines 58-63.
RECURSIVE IterDescendants(_, _, _)
RECURSIVE IterChildren(_, _)
IterChildren(h, children) ==
    IF children = <<>> THEN <<>>
    ELSE (IF Head(children).kind = "node"
          THEN IterDescendants(h, Head(children).id, TRUE) ELSE <<>>)
         \o IterChildren(h, Tail(children))

IterDescendants(h, n, include_self) ==
    (IF include_self /\ h[n].tag # RootTag THEN <<n>> ELSE <<>>)
    \o IterChildren(h, h[n].children)

\* str.lower() on the names that occur.
LowerCase(str) ==
    IF str = "DIV" THEN "div"
    ELSE IF str = "JavaScript" THEN "javascript"
    ELSE str

\* find_all, lines 40-56: every element (tags is True) or the elements whose
\* tag is one of tags.
AllTags == {"True"}
FindAll(h, tags) ==
    SelectSeq(IterDescendants(h, Root, FALSE),
              LAMBDA n : tags = AllTags \/ LowerCase(h[n].tag) \in tags)

\* HTMLNode is a dataclass (lines 11-16): node == other compares tag,
\* attrs, parent and children in this order and stops at the first pair
\* that differs; a pair of one and the same object is equal without a
\* comparison. Two children compare their parents, so a comparison that
\* comes back to a pair it is still comparing never ends (RecursionError).
SameAttrs(x, y) == DOMAIN x = DOMAIN y /\ \A k \in DOMAIN x : x[k] = y[k]

RECURSIVE NodeEq(_, _, _, _)
RECURSIVE ChildrenEq(_, _, _, _)
ChildrenEq(h, xs, ys, active) ==
    IF xs = <<>> THEN "eq"
    ELSE LET first ==
                 IF Head(xs).kind # Head(ys).kind THEN "ne"
                 ELSE IF Head(xs).kind = "text"
                 THEN (IF Head(xs).id = Head(ys).id THEN "eq" ELSE "ne")
                 ELSE NodeEq(h, Head(xs).id, Head(ys).id, active)
         IN IF first = "eq" THEN ChildrenEq(h, Tail(xs), Tail(ys), active)
            ELSE first

NodeEq(h, a, b, active) ==
    IF a = b THEN "eq"
    ELSE IF <<a, b>> \in active THEN "RecursionError"
    ELSE IF h[a].tag # h[b].tag \/ ~SameAttrs(h[a].attrs, h[b].attrs) THEN "ne"
    ELSE LET inner == active \cup {<<a, b>>}
             parents ==
                 IF h[a].parent = <<>> \/ h[b].parent = <<>>
                 THEN (IF h[a].parent = h[b].parent THEN "eq" ELSE "ne")
                 ELSE NodeEq(h, h[a].parent[1], h[b].parent[1], inner)
         IN IF parents # "eq" THEN parents
            ELSE IF Len(h[a].children) # Len(h[b].children) THEN "ne"
            ELSE ChildrenEq(h, h[a].children, h[b].children, inner)

\* list.index(self), line 88: the first position from i on whose item ==
\* self; a ValueError when there is none.
RECURSIVE IndexOf(_, _, _, _)
IndexOf(h, children, n, i) ==
    IF i > Len(children) THEN [index |-> 0, exc |-> Exc("ValueError", <<>>)]
    ELSE LET same == IF children[i].kind = "text" THEN "ne"
                     ELSE NodeEq(h, children[i].id, n, {})
         IN IF same = "eq" THEN [index |-> i, exc |-> NoExc]
            ELSE IF same = "ne" THEN IndexOf(h, children, n, i + 1)
            ELSE [index |-> 0, exc |-> Exc(same, <<>>)]

\* unwrap, lines 85-91: the item list.index found leaves the child list of
\* the node the parent pointer names and the children of the node take its
\* place there; no parent pointer is written.
Unwrap(h, n) ==
    IF h[n].parent = <<>> THEN [heap |-> h, exc |-> NoExc]
    ELSE LET par == h[n].parent[1]
             found == IndexOf(h, h[par].children, n, 1)
             index == found.index
         IN IF found.exc # NoExc THEN [heap |-> h, exc |-> found.exc]
            ELSE [heap |-> [h EXCEPT ![par].children =
                                SubSeq(@, 1, index - 1) \o h[n].children
                                \o SubSeq(@, index + 1, Len(@))],
                  exc |-> NoExc]

\* decompose, lines 93-96: the node is filtered out of the child list of
\* the node its parent pointer names.
Decompose(h, n) ==
    IF h[n].parent = <<>> THEN h
    ELSE [h EXCEPT ![h[n].parent[1]].children =
             SelectSeq(@, LAMBDA child : child # NodeItem(n))]

\* __delitem__, lines 36-38.
DelAttr(attrs, key) == [a \in DOMAIN attrs \ {key} |-> attrs[a]]

KeptAttributes == {"href", "title"}
DangerousTags == {"script", "style"}

IsJavascriptHref(attrs) ==
    /\ "href" \in DOMAIN attrs
    /\ LowerCase(attrs["href"].scheme) = "javascript"

\* sanitize_html, lines 34-41: what is done to an element that stays.
CleanAttributes(node) ==
    LET unlinked == IF node.tag = "a" /\ IsJavascriptHref(node.attrs)
                    THEN DelAttr(node.attrs, "href") ELSE node.attrs
    IN [a \in DOMAIN unlinked \cap KeptAttributes |-> unlinked[a]]

\* sanitize_html, lines 30-41: the loop over the elements find_all returned.
RECURSIVE SanitizeLoop(_, _, _)
SanitizeLoop(state, tags, allowed_tags) ==
    IF tags = <<>> \/ state.exc # NoExc THEN state
    ELSE LET n == Head(tags)
             h == state.heap
         IN IF h[n].tag \notin allowed_tags
            THEN SanitizeLoop(Unwrap(h, n), Tail(tags), allowed_tags)
            ELSE SanitizeLoop(
                     [heap |-> [h EXCEPT ![n].attrs = CleanAttributes(h[n])],
                      exc |-> NoExc],
                     Tail(tags), allowed_tags)

\* sanitize_html, lines 42-43.
RECURSIVE DecomposeAll(_, _)
DecomposeAll(h, tags) ==
    IF tags = <<>> THEN h ELSE DecomposeAll(Decompose(h, Head(tags)), Tail(tags))

\* _node_to_html and _node_children_to_html, lines 166-183: the markup as
\* the sequence of its start tags (with their attributes), texts and end
\* tags.
RECURSIVE NodeToHtml(_, _)
RECURSIVE NodeChildrenToHtml(_, _)
NodeChildrenToHtml(h, children) ==
    IF children = <<>> THEN <<>>
    ELSE (IF Head(children).kind = "node"
          THEN NodeToHtml(h, Head(children).id)
          ELSE <<[kind |-> "text", id |-> Head(children).id]>>)
         \o NodeChildrenToHtml(h, Tail(children))

NodeToHtml(h, n) ==
    <<[kind |-> "open", id |-> n, tag |-> h[n].tag, attrs |-> h[n].attrs]>>
    \o NodeChildrenToHtml(h, h[n].children)
    \o <<[kind |-> "close", id |-> n, tag |-> h[n].tag]>>

\* SoupTextCleaner.sanitize_html, lines 28-45, on the parsed document.
SoupSanitizeHtml(h, allowed_tags) ==
    LET looped == SanitizeLoop([heap |-> h, exc |-> NoExc], FindAll(h, AllTags),
                               allowed_tags)
    IN IF looped.exc # NoExc THEN Raise(looped.exc)
       ELSE LET cleared == DecomposeAll(looped.heap, FindAll(looped.heap, DangerousTags))
            IN Ok(NodeChildrenToHtml(cleared, cleared[Root].children))

\* The allowed_tags the cleaner is configured with.
AllowedTagSets == {{"p", "a"}, {"p", "a", "script"}}

\* _Selector, lines 186-190, and the selectors asked for: chains of compound
\* filters.
Filter(tag, classes, element_id) ==
    [tag |-> tag, classes |-> classes, element_id |-> element_id]
Filters == {Filter("DIV", <<>>, None), Filter(None, <<<<"c">>>>, None),
            Filter("p", <<>>, "i")}
Selectors == SeqsUpTo(Filters, MaxChain)

\* str.split(), line 256: the maximal runs of characters that are not
\* whitespace, a string being the sequence of its characters.
Whitespace == {" ", "\t"}

SplitEveryChar(chars) ==
    LET kept == SelectSeq(chars, LAMBDA ch : ch \notin Whitespace)
    IN [i \in 1..Len(kept) |-> <<kept[i]>>]

RECURSIVE SplitFrom(_, _, _)
SplitFrom(chars, token, tokens) ==
    LET closed == IF token = <<>> THEN tokens ELSE Append(tokens, token)
    IN IF chars = <<>> THEN closed
       ELSE IF Head(chars) \in Whitespace THEN SplitFrom(Tail(chars), <<>>, closed)
       ELSE SplitFrom(Tail(chars), Append(token, Head(chars)), tokens)

Split(chars) == SplitFrom(chars, <<>>, <<>>)

\* _matches_simple, lines 248-259.
MatchesSimple(node, selector) ==
    /\ Truthy(selector.tag) => LowerCase(node.tag) = LowerCase(selector.tag)
    /\ Truthy(selector.element_id) =>
          "id" \in DOMAIN node.attrs /\ node.attrs["id"] = selector.element_id
    /\ selector.classes # <<>> =>
          LET tokens == Split(IF "class" \in DOMAIN node.attrs
                              THEN node.attrs["class"] ELSE <<>>)
              node_classes == {tokens[i] : i \in 1..Len(tokens)}
          IN \A i \in 1..Len(selector.classes) : selector.classes[i] \in node_classes

IsRootOrNone(h, current) == current = <<>> \/ h[current[1]].tag = RootTag

\* _matches_selector, lines 237-242: the nearest node from current upwards
\* that matches the filter, <<>> when there is none.
RECURSIVE Climb(_, _, _)
Climb(h, current, selector) ==
    IF IsRootOrNone(h, current) THEN <<>>
    ELSE IF MatchesSimple(h[current[1]], selector) THEN current
    ELSE Climb(h, h[current[1]].parent, selector)

\* Mutant of MatchesFrom: only the last filter is looked at.
MatchesLastOnly(h, current, selectors, k) ==
    /\ ~IsRootOrNone(h, current)
    /\ MatchesSimple(h[current[1]], selectors[Len(selectors)])

\* _matches_selector, lines 226-245: the filters from the last one (k =
\* Len(selectors)) down to the first, current being the node to look at.
RECURSIVE MatchesFrom(_, _, _, _)
MatchesFrom(h, current, selectors, k) ==
    IF k = 0 THEN TRUE
    ELSE IF IsRootOrNone(h, current) THEN FALSE
    ELSE IF k = Len(selectors)
    THEN /\ MatchesSimple(h[current[1]], selectors[k])
         /\ MatchesFrom(h, h[current[1]].parent, selectors, k - 1)
    ELSE LET match_node == Climb(h, current, selectors[k])
         IN /\ match_node # <<>>
            /\ MatchesFrom(h, h[match_node[1]].parent, selectors, k - 1)

MatchesSelector(h, n, selectors) == MatchesFrom(h, <<n>>, selectors, Len(selectors))

\* select and select_one, lines 65-77.
Select(h, selectors) ==
    IF selectors = <<>> THEN <<>>
    ELSE SelectSeq(IterDescendants(h, Root, FALSE),
                   LAMBDA n : MatchesSelector(h, n, selectors))

SelectOne(h, selectors) ==
    LET results == Select(h, selectors)
    IN IF results # <<>> THEN <<results[1]>> ELSE <<>>

InitHtml ==
    /\ UseCaseIdle
    /\ seen_urls = {}
    /\ deduper_seen = {}
    /\ dedup_calls = <<>>
    /\ \E n \in 0..MaxNodes :
         \E kinds \in [1..n -> NodeKinds], par \in Shapes(n) :
            doc = BuildDocument(kinds, par)
    /\ html_call = NoCall
    /\ open_elements = <<>>
    /\ InfraIdle

SanitizeHtmlCall ==
    /\ html_call = NoCall
    /\ \E allowed_tags \in AllowedTagSets :
         html_call' = [op |-> "sanitize_html", arg |-> allowed_tags,
                       result |-> SoupSanitizeHtml(doc, allowed_tags)]
    /\ UNCHANGED <<useCaseVars, seen_urls, deduper_seen, dedup_calls, doc, open_elements,
                   infraVars>>

SelectCall ==
    /\ html_call = NoCall
    /\ \E selectors \in Selectors :
         html_call' = [op |-> "select", arg |-> selectors,
                       result |-> [all |-> Select(doc, selectors),
                                   one |-> SelectOne(doc, selectors)]]
    /\ UNCHANGED <<useCaseVars, seen_urls, deduper_seen, dedup_calls, doc, open_elements,
                   infraVars>>

NextHtml ==
    \/ SanitizeHtmlCall
    \/ SelectCall

SpecHtml == InitHtml /\ [][NextHtml]_vars

Sanitized == html_call.op = "sanitize_html" /\ html_call.result.ok
Output == html_call.result.val
StartTags == {i \in 1..Len(Output) : Output[i].kind = "open"}
Texts(markup, of) ==
    SelectSeq(markup, LAMBDA token : token.kind = "text" /\ token.id \in of)

\* C16 (as claimed): the sanitized markup has no element whose tag is
\* outside allowed_tags, and the texts of the elements that were to be
\* unwrapped are all there, in their original order.
C16_NoDisallowedElement ==
    Sanitized =>
        LET unwrapped == {n \in Elements(doc) : doc[n].tag \notin html_call.arg}
        IN /\ \A i \in StartTags : Output[i].tag \in html_call.arg
           /\ Texts(Output, unwrapped)
                = Texts(NodeChildrenToHtml(doc, doc[Root].children), unwrapped)

\* C17 (as claimed): the sanitized markup has no script or style element.
C17_NoScriptOrStyle ==
    Sanitized => \A i \in StartTags : Output[i].tag \notin DangerousTags

\* C18 (as claimed): every element of the sanitized markup has no attribute
\* but href and title, no anchor keeps a javascript: href, and the text of
\* such an anchor is kept.
C18_OnlyHrefAndTitle ==
    Sanitized =>
        /\ \A i \in StartTags :
             /\ DOMAIN Output[i].attrs \subseteq KeptAttributes
             /\ Output[i].tag = "a" => ~IsJavascriptHref(Output[i].attrs)
        /\ \A n \in Elements(doc) :
             (doc[n].tag = "a" /\ IsJavascriptHref(doc[n].attrs))
                => Texts(Output, {n}) # <<>>

\* The strict ancestors of n, nearest first, the root sentinel left out.
RECURSIVE StrictAncestors(_, _)
StrictAncestors(h, n) ==
    IF h[n].parent = <<>> \/ h[n].parent[1] = Root THEN <<>>
    ELSE <<h[n].parent[1]>> \o StrictAncestors(h, h[n].parent[1])

\* n satisfies the last filter and some strict ancestors of n, taken from
\* the nearest to the farthest, satisfy the other filters from the
\* second-to-last to the first.
SatisfiesChain(h, n, selectors) ==
    LET ancestors == StrictAncestors(h, n)
        last == Len(selectors)
    IN /\ MatchesSimple(h[n], selectors[last])
       /\ \E at \in [1..(last - 1) -> 1..Len(ancestors)] :
            /\ \A i, j \in 1..(last - 1) : i < j => at[i] > at[j]
            /\ \A i \in 1..(last - 1) : MatchesSimple(h[ancestors[at[i]]], selectors[i])

FieldConfigs == {<<"title">>, <<"title", "tags">>, <<"summary", "published_at_raw">>}
Nullable == {None, "x"}
FieldRecords ==
    [title : Titles, summary : Nullable, published_at_raw : Nullable,
     tags : {<<>>, <<"a">>}]

\* Lines 25-33 for a deduper whose self._fields is fields.
FingerprintFields(article, fields) ==
    Sha256(Join(UnitSeparator, <<(<<Prefix>>)>> \o Components(article, fields)))

\* Lines 14-23: Sha256Deduper(fields=...).
DeduperInit ==
    /\ dedup_calls = <<>>
    /\ \E fields \in FieldConfigs :
         dedup_calls' = <<Call("init", fields, TRUE)>>
    /\ UNCHANGED <<seen_urls, deduper_seen>>
    /\ UNCHANGED <<useCaseVars, htmlVars, infraVars>>

\* Lines 25-33: one call of fingerprint on the configured deduper.
DeduperFingerprintFields ==
    /\ dedup_calls # <<>>
    /\ Len(dedup_calls) <= MaxFingerprints
    /\ \E article \in FieldRecords :
         dedup_calls' =
             Append(dedup_calls,
                    Call("fingerprint", article,
                         FingerprintFields(article, dedup_calls[1].arg)))
    /\ UNCHANGED <<seen_urls, deduper_seen>>
    /\ UNCHANGED <<useCaseVars, htmlVars, infraVars>>

NextFields ==
    \/ DeduperInit
    \/ DeduperFingerprintFields

SpecFields == InitFingerprint /\ [][NextFields]_vars

\* C21 (as claimed): for the configured field set, two records that differ
\* in the value of at least one configured field, a change between None and
\* a value included, get different digests.
C21_ChangedFieldChangesDigest ==
    \A i, j \in CallIdx :
        (/\ IsCall(i, "fingerprint") /\ IsCall(j, "fingerprint")
         /\ \E k \in 1..Len(dedup_calls[1].arg) :
              dedup_calls[i].arg[dedup_calls[1].arg[k]]
                # dedup_calls[j].arg[dedup_calls[1].arg[k]])
          => dedup_calls[i].result # dedup_calls[j].result

\* ------------------------------------ RequestsSoupScraper, one entry
\* One listing entry with a link, taken through SoupListingParser.extract,
\* iter_listing, fetch_and_parse_article with SoupArticleParser.parse, and
\* fetch_page; then through the title and metadata lines of _build_article.
\* A metadata mapping is a function from keys to values.
MetaKeys == {"title", "section"}
NoMetadata == <<>>
Layer(keys, value) == [k \in keys |-> value]

\* dict operations: m.setdefault(k, v), m[k] = v, m.update(other), m.get(k).
SetDefault(m, k, v) == IF k \in DOMAIN m THEN m ELSE m @@ (k :> v)
SetItem(m, k, v) == (k :> v) @@ m
Update(m, other) == other @@ m
Get(m, k) == IF k \in DOMAIN m THEN m[k] ELSE None

\* What the page configuration, the listing markup and the article markup
\* hold for the entry: the page's metadata, the text of the link element,
\* the text of the listing's title_selector node (None: no selector or no
\* node), the values of the listing's metadata_selectors, the text of the
\* article's title_selector node and the values of the article's
\* metadata_selectors.  No summary_selector is configured and the listing is
\* requested without pagination, so the fetched page carries no metadata.
Entries ==
    [page_metadata : {Layer(K, "page") : K \in SUBSET MetaKeys},
     fetched_url : {AbsUrl("h1", ListingPath)},
     link_text : {"", "link"},
     title_text : {None, "", "selector"},
     listing_selectors : {Layer(K, "listing") : K \in SUBSET MetaKeys},
     article_title_text : {None, "own"},
     article_selectors : {Layer(K, "article") : K \in SUBSET MetaKeys}]

\* SoupListingParser.extract, lines 128-145, for an entry with a link.
ListingExtract(e, page_metadata) ==
    LET m0 == page_metadata
        m1 == IF Truthy(e.link_text) /\ "title" \notin DOMAIN m0
              THEN SetItem(m0, "title", e.link_text) ELSE m0
        m2 == IF Truthy(e.title_text)
              THEN SetDefault(m1, "title", e.title_text) ELSE m1
    IN Update(m2, e.listing_selectors)

\* iter_listing, lines 325-341: the metadata of the normalized entry.
IterListing(e) ==
    LET base_meta == Update(e.page_metadata, NoMetadata)
    IN SetDefault(ListingExtract(e, base_meta), "page_url", e.fetched_url)

\* SoupArticleParser.parse, lines 204-223, for a page with a body node.
ArticleParse(e, item_metadata) ==
    LET m1 == IF Truthy(e.article_title_text)
              THEN SetDefault(item_metadata, "title", e.article_title_text)
              ELSE item_metadata
        m2 == Update(m1, e.article_selectors)
    IN [title |-> Get(m2, "title"), metadata |-> m2]

\* fetch_and_parse_article, lines 359-374.
FetchAndParseArticle(e, listing_metadata) ==
    LET article == ArticleParse(e, Update(e.page_metadata, listing_metadata))
    IN IF ~Truthy(article.title) /\ Truthy(Get(listing_metadata, "title"))
       THEN [title |-> listing_metadata["title"],
             metadata |-> SetDefault(article.metadata, "title",
                                     listing_metadata["title"])]
       ELSE article

\* Mutant of MergeMetadata: the layers are applied in the reverse order.
MergeMetadataReversed(page_metadata, listing_metadata, article_metadata) ==
    Update(Update(article_metadata, listing_metadata), page_metadata)

\* fetch_page, lines 293-295.
MergeMetadata(page_metadata, listing_metadata, article_metadata) ==
    Update(Update(page_metadata, listing_metadata), article_metadata)

\* fetch_page, lines 283-313, for one entry: the ScrapedItem's title and
\* metadata, with the two layers they were made from.
ScrapeEntry(e) ==
    LET listing_metadata == IterListing(e)
        raw_article == FetchAndParseArticle(e, listing_metadata)
        metadata == MergeMetadata(e.page_metadata, listing_metadata,
                                  raw_article.metadata)
    IN [listing_metadata |-> listing_metadata,
        raw_article |-> raw_article,
        title |-> IF Truthy(raw_article.title) THEN raw_article.title
                  ELSE Get(metadata, "title"),
        metadata |-> metadata]

\* _build_article, lines 251-252.
CombinedMetadata(page_metadata, item_metadata, now) ==
    SetDefault(Update(page_metadata, item_metadata), "normalized_at", now)

InitScraper ==
    /\ UseCaseIdle
    /\ seen_urls = {}
    /\ deduper_seen = {}
    /\ dedup_calls = <<>>
    /\ HtmlIdle
    /\ plan_call = NoCall
    /\ mongo = <<>>
    /\ \E e \in Entries : scrape = [op |-> "entry", entry |-> e]

\* RequestsSoupScraper.fetch_page on the page of the entry.
ScraperFetchPage ==
    /\ scrape.op = "entry"
    /\ scrape' = [op |-> "fetch_page", entry |-> scrape.entry,
                  item |-> ScrapeEntry(scrape.entry)]
    /\ UNCHANGED <<useCaseVars, seen_urls, deduper_seen, dedup_calls, htmlVars,
                   plan_call, mongo>>

\* _build_article, lines 237-252, on the scraped item: the title and the
\* metadata the canonical record is to get.
BuildTitleAndMetadata ==
    /\ scrape.op = "fetch_page"
    /\ \E summary_text \in SummaryTexts, now \in Times :
         scrape' = [op |-> "build", entry |-> scrape.entry, item |-> scrape.item,
                    summary_text |-> summary_text,
                    title |-> CanonicalTitle(scrape.item.title, summary_text),
                    metadata |-> CombinedMetadata(scrape.entry.page_metadata,
                                                  scrape.item.metadata, now)]
    /\ UNCHANGED <<useCaseVars, seen_urls, deduper_seen, dedup_calls, htmlVars,
                   plan_call, mongo>>

NextScraper ==
    \/ ScraperFetchPage
    \/ BuildTitleAndMetadata

SpecScraper == InitScraper /\ [][NextScraper]_vars

\* The title the article page itself gives: its explicit metadata selector
\* for "title", else the text of its title_selector node.
OwnTitle(e) ==
    IF "title" \in DOMAIN e.article_selectors THEN e.article_selectors["title"]
    ELSE e.article_title_text

\* C22 (as claimed): the title of the canonical record is the article's own
\* title when it has one, else the title the listing or the page gave, else
\* the fallback title; it is never None.
C22_TitleArticleThenListingThenFallback ==
    scrape.op = "build" =>
        LET e == scrape.entry
            listing_title == Get(scrape.item.listing_metadata, "title")
        IN /\ scrape.title # None
           /\ scrape.title =
                IF Truthy(OwnTitle(e)) THEN OwnTitle(e)
                ELSE IF Truthy(listing_title) THEN listing_title
                ELSE FallbackTitle

\* C23 (as claimed): the title of a listing entry is resolved with the
\* precedence link text < title-selector text < explicit metadata selector:
\* non-empty title-selector text overrides the link text and an explicit
\* metadata selector for title overrides both (entries of a page whose own
\* metadata has no title).
C23_ListingTitlePrecedence ==
    (scrape.op = "fetch_page" /\ "title" \notin DOMAIN scrape.entry.page_metadata) =>
        LET e == scrape.entry
            title == Get(scrape.item.listing_metadata, "title")
        IN IF "title" \in DOMAIN e.listing_selectors
           THEN title = e.listing_selectors["title"]
           ELSE IF Truthy(e.title_text) THEN title = e.title_text
           ELSE IF Truthy(e.link_text) THEN title = e.link_text
           ELSE title = None

\* The layers fetch_page merges.
PageLayer == scrape.entry.page_metadata
ListingLayer == scrape.item.listing_metadata
ArticleLayer == scrape.item.raw_article.metadata

\* C24: the metadata of a scraped item has the keys of the page metadata,
\* the listing item's metadata and the article's metadata, and for each key
\* the value of the latest layer that has it (article over listing over
\* page); a key the article's and the listing's selectors and the page all
\* give has the article's value.  The metadata computed for the canonical
\* record is the page metadata overlaid with the item's metadata, plus
\* normalized_at.
C24_MetadataMergeOrder ==
    /\ scrape.op \in {"fetch_page", "build"} =>
         /\ DOMAIN scrape.item.metadata
              = DOMAIN PageLayer \cup DOMAIN ListingLayer \cup DOMAIN ArticleLayer
         /\ \A k \in DOMAIN scrape.item.metadata :
              scrape.item.metadata[k] =
                  IF k \in DOMAIN ArticleLayer THEN ArticleLayer[k]
                  ELSE IF k \in DOMAIN ListingLayer THEN ListingLayer[k]
                  ELSE PageLayer[k]
         /\ \A k \in MetaKeys :
              Get(scrape.item.metadata, k) =
                  IF k \in DOMAIN scrape.entry.article_selectors THEN "article"
                  ELSE IF k \in DOMAIN scrape.entry.listing_selectors THEN "listing"
                  ELSE IF k \in DOMAIN PageLayer THEN "page"
                  ELSE IF k = "title" THEN scrape.item.title
                  ELSE None
    /\ scrape.op = "build" =>
         \A k \in DOMAIN scrape.metadata \ {"normalized_at"} :
              scrape.metadata[k] =
                  IF k \in DOMAIN scrape.item.metadata THEN scrape.item.metadata[k]
                  ELSE PageLayer[k]

\* The page, the listing's selectors and the article's selectors all give
\* "section"; the scraped item and the record's metadata were computed.
C24_Witness ==
    /\ scrape.op = "build"
    /\ "section" \in DOMAIN PageLayer
    /\ "section" \in DOMAIN scrape.entry.listing_selectors
    /\ "section" \in DOMAIN scrape.entry.article_selectors
    /\ scrape.item.metadata["section"] = "article"
    /\ scrape.metadata["section"] = "article"

\* The entries extracted from the listing of page k, and the article
\* requests made for page k.
EntriesOf(k) == {i \in Idx : IsEv(i, "entry") /\ trace[i].page = k}
ArticleRequestsOf(k) == {i \in Idx : IsEv(i, "get_article") /\ trace[i].page = k}
Counted ==
    processed + SkippedCount("url") + SkippedCount("invalid")
      + SkippedCount("fingerprint") + SkippedCount("write")

\* One configured page whose listing has two entries, one of them with an
\* empty link; the article of the other was fetched with a body, and no
\* collaborator of the orchestrator failed.
OneOfTwoLinksEmpty ==
    /\ scraper = "requests_soup"
    /\ Len(pages) = 1
    /\ RunEnded /\ ~PageLevelAbort
    /\ Cardinality(EntriesOf(1)) = 2
    /\ Cardinality({i \in EntriesOf(1) : trace[i].url = EmptyUrl}) = 1
    /\ Len(items) = 1 /\ Truthy(items[1].content_html)
    /\ \A i \in Idx : IsEv(i, "build_article") =>
         trace[i].info \notin (CollaboratorOutcomes \ {"ok"})

\* C25 (as claimed): an entry without a link value is skipped, with no
\* article request and no counter for it; and with one page of two entries
\* of which one has an empty link, one article is fetched, one item is
\* persisted, pages.fetched is 1 and processed is 1.
C25_EmptyLinkSkippedOneProcessed ==
    /\ scraper = "requests_soup" =>
         \A k \in 1..Len(pages) :
            /\ Cardinality(ArticleRequestsOf(k))
                 <= Cardinality({i \in EntriesOf(k) : HasLink(trace[i].url)})
            /\ \A i \in ArticleRequestsOf(k) : HasLink(trace[i].url)
    /\ scraper = "requests_soup" =>
         Counted <= Cardinality({i \in Idx : IsEv(i, "get_article") /\ trace[i].info = "ok"})
    /\ OneOfTwoLinksEmpty =>
         /\ Cardinality(ArticleRequestsOf(1)) = 1
         /\ pages_fetched = 1
         /\ Len(persisted) = 1
         /\ processed = 1

\* The steps the orchestrator takes for the items of a page.
ItemSteps == {"to_absolute", "build_article", "fingerprint", "is_new", "write",
              "persist", "skip"}

\* C28: with the HTML scraper, when the listing request, an article request
\* or an article parse of a page fails, fetch_page raises FetchError or
\* ParseError right away and returns nothing: the page is not counted as
\* fetched and no item of it, the ones whose article had been fetched before
\* the failure included, reaches URL resolution, deduplication or the writer.
C28_FetchPageAllOrNothing ==
    scraper = "requests_soup" =>
        \A j \in Idx :
            (FailedEv(j, "get_listing") \/ FailedEv(j, "get_article")) =>
                /\ j < Len(trace)
                /\ IsEv(j + 1, "fetch_page")
                /\ trace[j + 1].info \in {"FetchError", "ParseError"}
                /\ trace[j + 1].page = trace[j].page
                /\ \A i \in Idx : trace[i].page = trace[j].page
                                    => trace[i].op \notin ItemSteps
                /\ pages_fetched < trace[j].page
                /\ \A r \in 1..Len(persisted) :
                     \A i \in ArticleRequestsOf(trace[j].page) :
                        persisted[r].url # trace[i].url

\* The article of the first entry of a page was fetched and the article of
\* the second entry failed.
C28_Witness ==
    /\ scraper = "requests_soup"
    /\ \E i, j \in Idx :
         /\ i < j
         /\ IsEv(i, "get_article") /\ trace[i].info = "ok"
         /\ FailedEv(j, "get_article")
         /\ trace[i].page = trace[j].page
         /\ trace[i].pos = 1 /\ trace[j].pos = 2
    /\ pc = "aborted"

\* ------------------------------------------------ PaginatedHttpFetcher
\* _build_requests, lines 57-87.  A value of the pagination mapping is
\* absent, an integer, or a value int() rejects.
MaxPageValue == 3
Absent == [kind |-> "absent"]
NotInt == [kind |-> "str"]
IntValue(n) == [kind |-> "int", val |-> n]
IntValues(S) == {IntValue(n) : n \in S}

\* int(value): ok with the integer, or ValueError.
ToInt(value) ==
    IF value.kind = "int" THEN Ok(value.val) ELSE Raise(Exc("ValueError", <<>>))

\* pagination.get(key, default) for an integer default.
GetValue(pagination, key, default) ==
    IF pagination[key] = Absent THEN IntValue(default) ELSE pagination[key]

\* The pagination mappings _build_requests is called with.
Paginations ==
    [param : {Absent, [kind |-> "name", val |-> "p"]},
     start : {Absent, NotInt} \cup IntValues(0..MaxPageValue),
     stop : {Absent} \cup IntValues(0..MaxPageValue),
     step : {Absent} \cup IntValues(-2..2),
     count : {Absent} \cup IntValues({-1, 2, 3}),
     params : {NoMetadata, [q |-> "x"]},
     pages : {Absent, [kind |-> "list", val |-> <<>>],
              [kind |-> "list", val |-> <<5, 7>>],
              [kind |-> "list", val |-> <<7, 5>>]},
     limit : {Absent} \cup IntValues(-1..2)]

\* Mutant of Range: a negative step yields nothing.
RECURSIVE RangeForward(_, _, _)
RangeForward(start, stop, step) ==
    IF step < 0 \/ start >= stop THEN <<>>
    ELSE <<start>> \o RangeForward(start + step, stop, step)

\* list(range(start, stop, step)) for step # 0.
RECURSIVE Range(_, _, _)
Range(start, stop, step) ==
    IF (step > 0 /\ start >= stop) \/ (step < 0 /\ start <= stop) THEN <<>>
    ELSE <<start>> \o Range(start + step, stop, step)

\* pages[:limit].
Slice(values, limit) ==
    LET n == IF limit >= 0
             THEN (IF limit < Len(values) THEN limit ELSE Len(values))
             ELSE (IF Len(values) + limit > 0 THEN Len(values) + limit ELSE 0)
    IN SubSeq(values, 1, n)

Max(a, b) == IF a >= b THEN a ELSE b

\* Mutant of PageValues: an explicit list of pages is not truncated and a
\* step of zero stays zero.
PageValuesUnadjusted(start, step_value, pagination) ==
    LET step == step_value
        limit_pages(values) == values
    IN IF pagination.pages # Absent
       THEN Ok(limit_pages(pagination.pages.val))
       ELSE IF pagination.stop # Absent
       THEN Ok(limit_pages(Range(start, pagination.stop.val
                                          + (IF step > 0 THEN 1 ELSE -1),
                                 IF step = 0 THEN 1 ELSE step)))
       ELSE LET count == ToInt(GetValue(pagination, "count", 1)).val
            IN Ok(limit_pages([i \in 1..Max(count, 1) |-> start + step * (i - 1)]))

\* Lines 66-82: the page values, from the converted start and step.
PageValues(start, step_value, pagination) ==
    LET step == IF step_value = 0 THEN 1 ELSE step_value
        limit_pages(values) ==
            IF pagination.limit = Absent THEN values
            ELSE Slice(values, pagination.limit.val)
    IN IF pagination.pages # Absent
       THEN Ok(limit_pages(pagination.pages.val))
       ELSE IF pagination.stop # Absent
       THEN Ok(limit_pages(Range(start, pagination.stop.val
                                          + (IF step > 0 THEN 1 ELSE -1), step)))
       ELSE LET count == ToInt(GetValue(pagination, "count", 1)).val
            IN Ok(limit_pages([i \in 1..Max(count, 1) |-> start + step * (i - 1)]))

\* The mapping with no key at all (or no mapping): `not pagination`.
NoPagination ==
    [param |-> Absent, start |-> Absent, stop |-> Absent, step |-> Absent,
     count |-> Absent, params |-> NoMetadata, pages |-> Absent, limit |-> Absent]

\* Lines 57-87: the requests (url, params, metadata), or the ValueError of
\* a conversion; start and step are converted before pages is read.  Without
\* pagination there is one request with params None and empty metadata.
BuildRequests(url, pagination) ==
    IF pagination = NoPagination
    THEN Ok(<<[url |-> url, has_params |-> FALSE, params |-> NoMetadata,
               metadata |-> NoMetadata]>>)
    ELSE
    LET param == IF pagination.param = Absent THEN "page" ELSE pagination.param.val
        start == ToInt(GetValue(pagination, "start", 1))
        step == ToInt(GetValue(pagination, "step", 1))
    IN IF ~start.ok THEN start
       ELSE IF ~step.ok THEN step
       ELSE LET values == PageValues(start.val, step.val, pagination).val
            IN Ok([i \in 1..Len(values) |->
                     [url |-> url, has_params |-> TRUE,
                      params |-> SetItem(pagination.params, param, values[i]),
                      metadata |-> [page |-> values[i]]]])

InitPlanner ==
    /\ UseCaseIdle
    /\ seen_urls = {}
    /\ deduper_seen = {}
    /\ dedup_calls = <<>>
    /\ HtmlIdle
    /\ scrape = NoCall
    /\ mongo = <<>>
    /\ \E pagination \in Paginations :
         plan_call = [op |-> "pagination", pagination |-> pagination]

\* One call of _build_requests with the pagination mapping.
PlanRequests ==
    /\ plan_call.op = "pagination"
    /\ plan_call' = [op |-> "_build_requests", pagination |-> plan_call.pagination,
                     result |-> BuildRequests(AbsUrl("h1", ListingPath),
                                              plan_call.pagination)]
    /\ UNCHANGED <<useCaseVars, seen_urls, deduper_seen, dedup_calls, htmlVars,
                   scrape, mongo>>

NextPlanner ==
    \/ PlanRequests

SpecPlanner == InitPlanner /\ [][NextPlanner]_vars

Planned == plan_call.op = "_build_requests"
Requested == [i \in 1..Len(plan_call.result.val) |-> plan_call.result.val[i].metadata.page]
ParamName ==
    IF plan_call.pagination.param = Absent THEN "page"
    ELSE plan_call.pagination.param.val

\* Each request is for the listing URL, with the static params plus
\* {param: p} and the metadata {page: p}.
RequestsWellFormed ==
    \A i \in 1..Len(plan_call.result.val) :
        LET r == plan_call.result.val[i] IN
        /\ r.url = AbsUrl("h1", ListingPath)
        /\ r.has_params
        /\ DOMAIN r.params = DOMAIN plan_call.pagination.params \cup {ParamName}
        /\ r.params[ParamName] = r.metadata.page
        /\ \A k \in DOMAIN plan_call.pagination.params \ {ParamName} :
              r.params[k] = plan_call.pagination.params[k]
        /\ DOMAIN r.metadata = {"page"}

\* C26 (as claimed): with pages in the pagination mapping, the page values
\* requested are that list, in order, whatever start, stop, step, count and
\* the other fields hold, one well-formed request per value.
C26_ExplicitPagesVerbatim ==
    (Planned /\ plan_call.pagination.pages # Absent) =>
        /\ plan_call.result.ok
        /\ Requested = plan_call.pagination.pages.val
        /\ RequestsWellFormed

\* C26 (amended): with pages in the pagination mapping and start and step
\* absent or integers, the page values requested are that list, in order,
\* cut to its first limit entries when limit is given (a negative limit
\* drops that many entries from the end), whatever stop and count hold, one
\* well-formed request per value; a start that is no integer is a ValueError.
C26_ExplicitPagesUpToLimit ==
    (Planned /\ plan_call.pagination.pages # Absent) =>
        IF plan_call.pagination.start = NotInt
        THEN ~plan_call.result.ok /\ plan_call.result.exc.cls = "ValueError"
        ELSE /\ plan_call.result.ok
             /\ Requested =
                  (IF plan_call.pagination.limit = Absent
                   THEN plan_call.pagination.pages.val
                   ELSE Slice(plan_call.pagination.pages.val,
                              plan_call.pagination.limit.val))
             /\ RequestsWellFormed

\* pages (5, 7) with limit 1, and start, stop, step and count all given.
C26_Witness ==
    /\ Planned
    /\ plan_call.pagination.pages = [kind |-> "list", val |-> <<5, 7>>]
    /\ plan_call.pagination.limit = IntValue(1)
    /\ plan_call.pagination.start = IntValue(2)
    /\ plan_call.pagination.stop = IntValue(3)
    /\ plan_call.pagination.step = IntValue(-1)
    /\ plan_call.pagination.count = IntValue(3)
    /\ Requested = <<5>>

\* The values start, start + step, ... between start and stop inclusive
\* (none when the direction from start to stop is not that of step), and
\* the first n values start + step * i.
Between(start, stop, step) ==
    LET n == IF step > 0 /\ start <= stop THEN ((stop - start) \div step) + 1
             ELSE IF step < 0 /\ start >= stop THEN ((start - stop) \div (-step)) + 1
             ELSE 0
    IN [i \in 1..n |-> start + step * (i - 1)]
Counting(start, step, n) == [i \in 1..n |-> start + step * (i - 1)]

ConfiguredStart == ToInt(GetValue(plan_call.pagination, "start", 1)).val
ConfiguredStep == ToInt(GetValue(plan_call.pagination, "step", 1)).val
ConfiguredCount == ToInt(GetValue(plan_call.pagination, "count", 1)).val
Generated(step) ==
    IF plan_call.pagination.stop # Absent
    THEN Between(ConfiguredStart, plan_call.pagination.stop.val, step)
    ELSE Counting(ConfiguredStart, step, Max(ConfiguredCount, 1))

\* A pagination mapping without pages and with an integer start.
GeneratedCase ==
    /\ Planned
    /\ plan_call.pagination # NoPagination
    /\ plan_call.pagination.pages = Absent
    /\ plan_call.pagination.start # NotInt

\* C27 (as claimed): without pages (and without limit), a stop makes the
\* planner yield start, start + step, ... up to stop inclusive, for either
\* sign of step, and nothing when the direction does not match the sign of
\* step; without a stop it yields max(count, 1) values start + step * i,
\* count defaulting to 1.
C27_RangeOrCount ==
    (GeneratedCase /\ plan_call.pagination.limit = Absent) =>
        /\ plan_call.result.ok
        /\ Requested = Generated(ConfiguredStep)

\* C27 (amended): the same with a step of 0 taken as 1, and the sequence cut
\* to limit entries when limit is given.
C27_RangeOrCountStepNonZero ==
    GeneratedCase =>
        LET step == IF ConfiguredStep = 0 THEN 1 ELSE ConfiguredStep
            values == Generated(step)
        IN /\ plan_call.result.ok
           /\ Requested = (IF plan_call.pagination.limit = Absent THEN values
                           ELSE Slice(values, plan_call.pagination.limit.val))
           /\ RequestsWellFormed

\* From 3 down to 0 in steps of -2: the values 3 and 1.
C27_Witness ==
    /\ GeneratedCase
    /\ plan_call.pagination.start = IntValue(3)
    /\ plan_call.pagination.stop = IntValue(0)
    /\ plan_call.pagination.step = IntValue(-2)
    /\ plan_call.pagination.limit = Absent
    /\ Requested = <<3, 1>>

\* ------------------------------------------- HTMLDocument.from_html
\* Markup as a sequence of tokens: a start tag, an end tag, a character of
\* text, or a character or entity reference (&lt; &#38; ...) in text.
MaxMarkup == 4
Token(kind, val) == [kind |-> kind, val |-> val]
MarkupTokens ==
    {Token("start", "p"), Token("end", "p"), Token("start", "b"), Token("end", "b"),
     Token("char", "a"), Token("ref", "lt"), Token("ref", "#38"), Token("ref", "zzz")}

\* html.unescape, applied by HTMLParser to text when convert_charrefs is
\* true (line 104): a known reference becomes the character it names, an
\* unknown one is left as it is.
Unescape(token) ==
    IF token.kind # "ref" THEN token
    ELSE IF token.val = "lt" THEN Token("char", "<")
    ELSE IF token.val = "#38" THEN Token("char", "&")
    ELSE token

\* The data handle_data receives for a token of text (lines 104, 119-122):
\* with convert_charrefs=True the parser never calls handle_entityref or
\* handle_charref (lines 124-128) and hands over unescaped text.
TextData(token) == Unescape(token)

\* A child: an element with its children, or a text run with its data.
ElementChild(tag, children) ==
    [kind |-> "node", tag |-> tag, children |-> children, data |-> <<>>]
TextChild(data) == [kind |-> "text", tag |-> "", children |-> <<>>, data |-> data]

\* The open elements, the root at the bottom; an element is put among the
\* children of the one below it when it leaves the stack, which is where
\* append_child put it when it was opened (line 110), as nothing is added
\* below the top of the stack.
RECURSIVE TruncateStack(_, _)
TruncateStack(stack, n) ==
    IF Len(stack) <= n THEN stack
    ELSE LET top == stack[Len(stack)]
             below == stack[Len(stack) - 1]
             folded == [below EXCEPT
                          !.children = Append(@, ElementChild(top.tag, top.children))]
         IN TruncateStack(SubSeq(stack, 1, Len(stack) - 2) \o <<folded>>, n)

\* Lines 113-117: the topmost open element with the tag, the root excluded.
MatchingOpen(stack, tag) ==
    LET found == {i \in 2..Len(stack) : stack[i].tag = tag}
    IN IF found = {} THEN 0 ELSE CHOOSE i \in found : \A j \in found : j <= i

\* Lines 119-122: the data is appended to the element on top of the stack;
\* the text that follows text with no tag in between is part of the same
\* data.
AppendData(stack, token, follows_text) ==
    LET top == stack[Len(stack)]
        n == Len(top.children)
        children ==
            IF follows_text /\ n > 0 /\ top.children[n].kind = "text"
            THEN [top.children EXCEPT
                     ![n] = TextChild(Append(top.children[n].data, TextData(token)))]
            ELSE Append(top.children, TextChild(<<TextData(token)>>))
    IN [stack EXCEPT ![Len(stack)] = [top EXCEPT !.children = children]]

\* _TreeBuilder fed with the markup, lines 102-128 and 136-140: the children
\* of the root.
RECURSIVE Feed(_, _, _)
Feed(stack, markup, follows_text) ==
    IF markup = <<>> THEN TruncateStack(stack, 1)[1].children
    ELSE LET token == Head(markup) IN
         IF token.kind = "start"
         THEN Feed(Append(stack, [tag |-> token.val, children |-> <<>>]),
                   Tail(markup), FALSE)
         ELSE IF token.kind = "end"
         THEN LET index == MatchingOpen(stack, token.val)
              IN Feed(IF index = 0 THEN stack ELSE TruncateStack(stack, index - 1),
                      Tail(markup), FALSE)
         ELSE Feed(AppendData(stack, token, follows_text), Tail(markup), TRUE)

FromHtml(markup) == Feed(<<[tag |-> RootTag, children |-> <<>>]>>, markup, FALSE)

\* _node_to_html and _node_children_to_html, lines 166-183, for elements
\* without attributes: text is written as it is held.
RECURSIVE ChildrenToMarkup(_)
ChildrenToMarkup(children) ==
    IF children = <<>> THEN <<>>
    ELSE LET child == Head(children)
         IN (IF child.kind = "node"
             THEN <<Token("start", child.tag)>> \o ChildrenToMarkup(child.children)
                    \o <<Token("end", child.tag)>>
             ELSE child.data)
            \o ChildrenToMarkup(Tail(children))

InitParser ==
    /\ UseCaseIdle
    /\ seen_urls = {}
    /\ deduper_seen = {}
    /\ dedup_calls = <<>>
    /\ InfraIdle
    /\ doc = <<>>
    /\ open_elements = <<>>
    /\ \E markup \in SeqsUpTo(MarkupTokens, MaxMarkup) :
         html_call = [op |-> "markup", arg |-> markup]

\* str(HTMLDocument.from_html(markup)).
ParseAndSerialize ==
    /\ html_call.op = "markup"
    /\ doc' = FromHtml(html_call.arg)
    /\ html_call' = [op |-> "from_html", arg |-> html_call.arg,
                     result |-> ChildrenToMarkup(doc')]
    /\ UNCHANGED <<useCaseVars, seen_urls, deduper_seen, dedup_calls, open_elements,
                   infraVars>>

NextParser ==
    \/ ParseAndSerialize

SpecParser == InitParser /\ [][NextParser]_vars

References(markup) == SelectSeq(markup, LAMBDA token : token.kind = "ref")

\* C29 (as claimed): the references of the text are kept as written by the
\* parse, so the serialized document has the references of the input, in
\* order.
C29_ReferencesPreserved ==
    html_call.op = "from_html" =>
        References(html_call.result) = References(html_call.arg)

\* ---------------------------------------------------- MongoArticleWriter
\* The collection is the object the writer was constructed with; what its
\* update_one does is not the writer's code, so each call either raises an
\* exception of some class or returns a result with upserted_id (None or an
\* ObjectId) and matched_count.
MaxWrites == 2
ObjectId(hex) == <<"ObjectId", hex>>
Str(object_id) == object_id[2]
UpdateResults ==
    [raised : {"none"}, upserted_id : {<<None>>, ObjectId("abc123")},
     matched_count : {0, 1}]
UpdateFailures ==
    [raised : {"DuplicateKeyError", "OperationFailure"}, upserted_id : {<<None>>},
     matched_count : {0}]
UpdateOutcomes == UpdateResults \cup UpdateFailures

UpdateOne(key, value, upsert, outcome) ==
    [filter |-> [key |-> key, value |-> value], upsert |-> upsert,
     outcome |-> outcome]

WriteResult(status, article_id) == [status |-> status, article_id |-> article_id]

\* Mutant of FallbackOutcome: the update by fingerprint counts as done
\* whatever it matched.
FallbackAlwaysUpdated(second, exc) ==
    IF second.raised # "none"
    THEN Raise(Exc("WriteError", <<Exc(second.raised, <<>>)>>))
    ELSE Ok(WriteResult("updated", None))

\* Lines 37-49: the outcome of write after the update by fingerprint.
FallbackOutcome(second, exc) ==
    IF second.raised # "none"
    THEN Raise(Exc("WriteError", <<Exc(second.raised, <<>>)>>))
    ELSE IF second.matched_count = 0
    THEN Raise(Exc("WriteError", <<exc>>))
    ELSE Ok(WriteResult("updated", None))

\* write, lines 19-54: the update calls made and the outcome, first and
\* second being what the collection does on the first and second call.
MongoWrite(url, fingerprint, first, second) ==
    LET by_url == UpdateOne("url", url, TRUE, first)
        by_fingerprint == UpdateOne("fingerprint", fingerprint, FALSE, second)
    IN IF first.raised = "none"
       THEN [calls |-> <<by_url>>,
             result |-> IF first.upserted_id # <<None>>
                        THEN Ok(WriteResult("inserted", Str(first.upserted_id)))
                        ELSE Ok(WriteResult("updated", None))]
       ELSE IF first.raised # "DuplicateKeyError"
       THEN [calls |-> <<by_url>>,
             result |-> Raise(Exc("WriteError", <<Exc(first.raised, <<>>)>>))]
       ELSE [calls |-> <<by_url, by_fingerprint>>,
             result |-> FallbackOutcome(second, Exc(first.raised, <<>>))]

InitWriter ==
    /\ UseCaseIdle
    /\ seen_urls = {}
    /\ deduper_seen = {}
    /\ dedup_calls = <<>>
    /\ HtmlIdle
    /\ scrape = NoCall
    /\ plan_call = NoCall
    /\ mongo = <<>>

\* One call of MongoArticleWriter.write.
MongoWriterWrite ==
    /\ Len(mongo) < MaxWrites
    /\ \E h \in Hosts, first \in UpdateOutcomes, second \in UpdateOutcomes :
         LET url == AbsUrl(h, "/a")
             fingerprint == Sha256(<<"", UnitSeparator, url>>)
             written == MongoWrite(url, fingerprint, first, second)
         IN mongo' = Append(mongo, [url |-> url, fingerprint |-> fingerprint,
                                    calls |-> written.calls,
                                    result |-> written.result])
    /\ UNCHANGED <<useCaseVars, seen_urls, deduper_seen, dedup_calls, htmlVars,
                   scrape, plan_call>>

NextWriter ==
    \/ MongoWriterWrite

SpecWriter == InitWriter /\ [][NextWriter]_vars

IsWriteError(result) == ~result.ok /\ result.exc.cls = "WriteError"

\* C30: every write makes an upsert filtered by url first; if that returns,
\* write returns inserted with the upserted id when there is one and updated
\* otherwise, and makes no other call; only if it raised DuplicateKeyError
\* does write make a second call, an update without upsert filtered by
\* fingerprint, returning updated if it matched a document and raising
\* WriteError if it matched none or raised; any other failure of the first
\* call is a WriteError; there are never more than two calls.
C30_TwoStepWrite ==
    \A i \in 1..Len(mongo) :
        LET w == mongo[i]
            first == w.calls[1].outcome
        IN /\ Len(w.calls) \in {1, 2}
           /\ w.calls[1].filter = [key |-> "url", value |-> w.url]
           /\ w.calls[1].upsert
           /\ Len(w.calls) = 2 <=> first.raised = "DuplicateKeyError"
           /\ first.raised = "none" =>
                /\ w.result.ok
                /\ w.result.val.status = "inserted" <=> first.upserted_id # <<None>>
                /\ w.result.val.status = "inserted"
                     => ObjectId(w.result.val.article_id) = first.upserted_id
                /\ w.result.val.status # "inserted"
                     => w.result.val = WriteResult("updated", None)
           /\ first.raised \notin {"none", "DuplicateKeyError"} => IsWriteError(w.result)
           /\ Len(w.calls) = 2 =>
                LET second == w.calls[2].outcome IN
                /\ w.calls[2].filter = [key |-> "fingerprint", value |-> w.fingerprint]
                /\ ~w.calls[2].upsert
                /\ IF second.raised = "none" /\ second.matched_count >= 1
                   THEN w.result.ok /\ w.result.val = WriteResult("updated", None)
                   ELSE IsWriteError(w.result)

\* An upsert that raised DuplicateKeyError followed by an update by
\* fingerprint that matched nothing, and one that matched a document.
C30_Witness ==
    /\ Len(mongo) = 2
    /\ Len(mongo[1].calls) = 2 /\ mongo[1].calls[2].outcome.matched_count = 0
    /\ IsWriteError(mongo[1].result)
    /\ Len(mongo[2].calls) = 2 /\ mongo[2].calls[2].outcome.matched_count = 1
    /\ mongo[2].result.ok

\* ---------------------------------------------------------------------
\* _TreeBuilder event by event (html_tree.py 102-122), then the operations
\* of HTMLNode on the tree it built (lines 85-96).

MaxEvents == 5
MaxOps == 2
ParserTags == {"p", "b"}
\* The data of a text event; EmptyData is the empty string.
EmptyData == 0
DataValues == {EmptyData, 1}

Event(kind, tag, data) == [kind |-> kind, tag |-> tag, data |-> data]

\* _TreeBuilder.__init__, lines 103-106.
RootOnly ==
    [i \in {Root} |-> [tag |-> RootTag, attrs |-> NoAttrs, parent |-> <<>>,
                       children |-> <<>>]]

\* append_child, lines 22-25.
AppendChild(h, n, child) ==
    LET linked == IF child.kind = "node"
                  THEN [h EXCEPT ![child.id].parent = <<n>>] ELSE h
    IN [linked EXCEPT ![n].children = Append(@, child)]

\* stack[-1]: an IndexError on an empty stack.
StackBottom(st) == IF st = <<>> THEN Raise(Exc("IndexError", <<>>)) ELSE Ok(st[1])
StackTop(st) == IF st = <<>> THEN Raise(Exc("IndexError", <<>>)) ELSE Ok(st[Len(st)])

\* handle_starttag, lines 108-111.
HandleStarttag(h, st, tag) ==
    LET top == StackTop(st)
        node == Cardinality(DOMAIN h)
        created == [i \in DOMAIN h \cup {node} |->
                       IF i = node
                       THEN [tag |-> tag, attrs |-> NoAttrs, parent |-> <<>>,
                             children |-> <<>>]
                       ELSE h[i]]
    IN IF ~top.ok THEN [heap |-> h, stack |-> st, exc |-> top.exc]
       ELSE [heap |-> AppendChild(created, top.val, NodeItem(node)),
             stack |-> Append(st, node), exc |-> NoExc]

\* Line 116, self.stack[: index]: the element found and all above it leave.
StackUpToTop(st, index) == SubSeq(st, 1, Len(st) - 1)
StackUpTo(st, index) == SubSeq(st, 1, index - 1)

\* handle_endtag, lines 113-117.
HandleEndtag(h, st, tag) ==
    LET index == MatchingOpen([i \in 1..Len(st) |-> h[st[i]]], tag)
    IN [heap |-> h, stack |-> IF index = 0 THEN st ELSE StackUpTo(st, index),
        exc |-> NoExc]

\* handle_data, lines 119-122.
HandleData(h, st, data) ==
    LET top == StackTop(st)
    IN IF data = EmptyData THEN [heap |-> h, stack |-> st, exc |-> NoExc]
       ELSE IF ~top.ok THEN [heap |-> h, stack |-> st, exc |-> top.exc]
       ELSE [heap |-> AppendChild(h, top.val, TextItem(data)), stack |-> st,
             exc |-> NoExc]

\* HTMLDocument.from_html, lines 135-140: the builder is created.
InitTree ==
    /\ UseCaseIdle
    /\ seen_urls = {}
    /\ deduper_seen = {}
    /\ dedup_calls = <<>>
    /\ InfraIdle
    /\ doc = RootOnly
    /\ open_elements = <<Root>>
    /\ html_call = [op |-> "builder", exc |-> NoExc, count |-> 0]

Feeding == html_call.op \in {"builder", "feed"} /\ html_call.exc = NoExc

\* One event of parser.feed(html): the handler is called with the event.
Fed(event, after) ==
    /\ doc' = after.heap
    /\ open_elements' = after.stack
    /\ html_call' = [op |-> "feed", event |-> event,
                     before |-> [heap |-> doc, stack |-> open_elements],
                     exc |-> after.exc, count |-> html_call.count + 1]
    /\ UNCHANGED <<useCaseVars, seen_urls, deduper_seen, dedup_calls, infraVars>>

StartTag ==
    /\ Feeding
    /\ html_call.count < MaxEvents
    /\ \E tag \in ParserTags :
         Fed(Event("start", tag, EmptyData), HandleStarttag(doc, open_elements, tag))

EndTag ==
    /\ Feeding
    /\ html_call.count < MaxEvents
    /\ \E tag \in ParserTags :
         Fed(Event("end", tag, EmptyData), HandleEndtag(doc, open_elements, tag))

Data ==
    /\ Feeding
    /\ html_call.count < MaxEvents
    /\ \E data \in DataValues :
         Fed(Event("data", "", data), HandleData(doc, open_elements, data))

\* Lines 139-140: parser.close() and the document over parser.root; the
\* builder and its stack are dropped.
Close ==
    /\ Feeding
    /\ doc' = doc
    /\ open_elements' = <<>>
    /\ html_call' = [op |-> "document", exc |-> NoExc, count |-> 0]
    /\ UNCHANGED <<useCaseVars, seen_urls, deduper_seen, dedup_calls, infraVars>>

Parsed == html_call.op \in {"document", "unwrap", "decompose"}

\* node.unwrap() on a node of the document, attached or not.
UnwrapNode ==
    /\ Parsed
    /\ html_call.count < MaxOps
    /\ \E n \in DOMAIN doc :
         LET after == Unwrap(doc, n)
         IN /\ doc' = after.heap
            /\ html_call' = [op |-> "unwrap", node |-> n, before |-> doc,
                             exc |-> after.exc, count |-> html_call.count + 1]
    /\ UNCHANGED <<useCaseVars, seen_urls, deduper_seen, dedup_calls, open_elements,
                   infraVars>>

\* node.decompose() on a node of the document, attached or not.
DecomposeNode ==
    /\ Parsed
    /\ html_call.count < MaxOps
    /\ \E n \in DOMAIN doc :
         /\ doc' = Decompose(doc, n)
         /\ html_call' = [op |-> "decompose", node |-> n, before |-> doc,
                          exc |-> NoExc, count |-> html_call.count + 1]
    /\ UNCHANGED <<useCaseVars, seen_urls, deduper_seen, dedup_calls, open_elements,
                   infraVars>>

NextTree ==
    \/ StartTag
    \/ EndTag
    \/ Data
    \/ Close
    \/ UnwrapNode
    \/ DecomposeNode

SpecTree == InitTree /\ [][NextTree]_vars

\* C31: a close tag removes from the stack the nearest open element with its
\* tag, counted from the top, and every element above it, and these stay
\* in the tree as children; a close tag that matches no open element leaves
\* the stack as it was; the root sentinel stays at the bottom; no event
\* raises an error.
SameTagOpen(h, st, tag) == {i \in 2..Len(st) : h[st[i]].tag = tag}

C31_CloseTagPopsToNearestMatch ==
    html_call.op = "feed" =>
        LET before == html_call.before
            event == html_call.event
            open == SameTagOpen(before.heap, before.stack, event.tag)
        IN /\ html_call.exc = NoExc
           /\ open_elements # <<>>
           /\ open_elements[1] = Root
           /\ (event.kind = "end" /\ open = {}) => open_elements = before.stack
           /\ (event.kind = "end" /\ open # {}) =>
                 LET nearest == CHOOSE i \in open : \A j \in open : j <= i
                 IN /\ open_elements = SubSeq(before.stack, 1, nearest - 1)
                    /\ \A j \in nearest..Len(before.stack) :
                         \E c \in 1..Len(doc[before.stack[j - 1]].children) :
                            doc[before.stack[j - 1]].children[c]
                                = NodeItem(before.stack[j])

\* A close tag has removed an element that was not on top of the stack.
C31_Witness ==
    /\ html_call.op = "feed"
    /\ html_call.event.kind = "end"
    /\ Len(html_call.before.stack) - Len(open_elements) >= 2

\* C32: unwrap on a node that is a child of its parent removes that very
\* node from the children of the parent, also when an equal sibling
\* precedes it, and puts its own children at that index in their order,
\* every other sibling staying in place; unwrap and decompose on a node
\* without a parent change nothing.
PositionOf(children, n) ==
    {i \in 1..Len(children) : children[i] = NodeItem(n)}

C32_UnwrapReplacesThatNode ==
    /\ (html_call.op \in {"unwrap", "decompose"}
        /\ html_call.before[html_call.node].parent = <<>>)
          => doc = html_call.before
    /\ html_call.op = "unwrap" =>
         LET before == html_call.before
             n == html_call.node
         IN \A par \in DOMAIN before :
              (before[n].parent = <<par>>
               /\ Cardinality(PositionOf(before[par].children, n)) = 1) =>
                 LET index == CHOOSE i \in PositionOf(before[par].children, n) : TRUE
                     siblings == before[par].children
                 IN /\ html_call.exc = NoExc
                    /\ doc = [before EXCEPT ![par].children =
                                 SubSeq(siblings, 1, index - 1)
                                 \o before[n].children
                                 \o SubSeq(siblings, index + 1, Len(siblings))]

\* C39: while the builder is fed, the stack is never empty, its bottom is
\* the root sentinel and every element above the bottom is a child of the
\* element directly below it; the text of a text event becomes the last
\* child of the element that was on top of the stack, and nothing else
\* changes.
IsChildOf(h, child, n) ==
    /\ h[child].parent = <<n>>
    /\ \E c \in 1..Len(h[n].children) : h[n].children[c] = NodeItem(child)

C39_OpenElementStack ==
    html_call.op \in {"builder", "feed"} =>
        /\ open_elements # <<>>
        /\ open_elements[1] = Root
        /\ doc[Root].tag = RootTag
        /\ \A i \in 2..Len(open_elements) :
              IsChildOf(doc, open_elements[i], open_elements[i - 1])
        /\ (html_call.op = "feed" /\ html_call.event.kind = "data"
            /\ html_call.event.data # EmptyData) =>
              LET before == html_call.before
                  top == before.stack[Len(before.stack)]
              IN /\ open_elements = before.stack
                 /\ doc = [before.heap EXCEPT
                              ![top].children = Append(@, TextItem(html_call.event.data))]

\* Text arrives while two elements are open, after an end tag cut the
\* stack.
C39_Witness ==
    /\ html_call.op = "feed"
    /\ html_call.event.kind = "data"
    /\ html_call.event.data # EmptyData
    /\ Len(open_elements) = 3
    /\ Cardinality(DOMAIN doc) > 3

\* C37: in every state of a document that was parsed and then changed by
\* unwrap and decompose, every element reachable from the root is held by
\* exactly one child list, once, the parent pointer of the element names
\* the node with that list, and no node is among its own descendants.
ChildNodes(h, n) ==
    {h[n].children[c].id : c \in {i \in 1..Len(h[n].children) :
                                      h[n].children[i].kind = "node"}}

RECURSIVE ReachableFrom(_, _, _)
ReachableFrom(h, frontier, seen) ==
    IF frontier = {} THEN seen
    ELSE LET next == UNION {ChildNodes(h, n) : n \in frontier}
         IN ReachableFrom(h, next \ (seen \cup frontier), seen \cup frontier)

Holders(h, nodes, e) ==
    UNION {{<<n, c>> : c \in {i \in 1..Len(h[n].children) :
                                  h[n].children[i] = NodeItem(e)}} : n \in nodes}

C37_TreeConsistent ==
    html_call.op \in {"document", "unwrap", "decompose"} =>
        LET nodes == ReachableFrom(doc, {Root}, {})
        IN /\ \A e \in nodes \ {Root} :
                /\ Cardinality(Holders(doc, nodes, e)) = 1
                /\ \A holder \in Holders(doc, nodes, e) : doc[e].parent = <<holder[1]>>
           /\ \A n \in nodes :
                n \notin ReachableFrom(doc, ChildNodes(doc, n), {})

\* ---------------------------------------------------------------------
\* _matches_simple on its own: one element and one compound filter.

\* The values of the id and class attributes; an attribute may be absent.
IdValues == {"i", "I", ""}
ClassValues ==
    {<<>>, <<"c">>, <<"c", "d">>, <<"c", " ", "d">>, <<" ", "d", "\t", "c">>,
     <<"d", " ">>}
MatchTags == {"div", "p"}
FilterTags == {None, "DIV", "p"}
FilterIds == {None, "i"}
FilterClasses == {<<>>, <<<<"c">>>>, <<<<"c">>, <<"d">>>>, <<<<"c", "d">>>>}

WithAttr(attrs, key, present, value) ==
    IF present THEN (key :> value) @@ attrs ELSE attrs

InitMatch ==
    /\ UseCaseIdle
    /\ seen_urls = {}
    /\ deduper_seen = {}
    /\ dedup_calls = <<>>
    /\ InfraIdle
    /\ doc = <<>>
    /\ open_elements = <<>>
    /\ \E tag \in MatchTags, has_id, has_class \in BOOLEAN,
          id \in IdValues, class \in ClassValues,
          filter_tag \in FilterTags, filter_id \in FilterIds,
          classes \in FilterClasses :
         /\ has_id \/ id = ""
         /\ has_class \/ class = <<>>
         /\ html_call =
              [op |-> "node",
               node |-> [tag |-> tag,
                         attrs |-> WithAttr(WithAttr(NoAttrs, "id", has_id, id),
                                            "class", has_class, class)],
               selector |-> Filter(filter_tag, classes, filter_id)]

MatchesSimpleCall ==
    /\ html_call.op = "node"
    /\ html_call' = [op |-> "matches_simple", node |-> html_call.node,
                     selector |-> html_call.selector,
                     result |-> MatchesSimple(html_call.node, html_call.selector)]
    /\ UNCHANGED <<useCaseVars, seen_urls, deduper_seen, dedup_calls, doc,
                   open_elements, infraVars>>

NextMatch ==
    \/ MatchesSimpleCall

SpecMatch == InitMatch /\ [][NextMatch]_vars

\* C33: a compound filter matches a node iff the filter has no tag or the
\* tag of the node is the same up to case, the filter has no id or the id
\* attribute of the node is exactly that id, and every class of the filter
\* is one of the whitespace-separated tokens of the class attribute of the
\* node; a filter with no tag, no id and no class matches every element.
IsToken(value, token) ==
    \E i \in 1..Len(value) :
        /\ i + Len(token) - 1 <= Len(value)
        /\ token # <<>>
        /\ SubSeq(value, i, i + Len(token) - 1) = token
        /\ \A k \in 1..Len(token) : token[k] \notin Whitespace
        /\ i = 1 \/ value[i - 1] \in Whitespace
        /\ i + Len(token) - 1 = Len(value) \/ value[i + Len(token)] \in Whitespace

C33_CompoundFilterMatch ==
    html_call.op = "matches_simple" =>
        LET node == html_call.node
            selector == html_call.selector
            class == IF "class" \in DOMAIN node.attrs THEN node.attrs["class"] ELSE <<>>
        IN /\ html_call.result <=>
                /\ selector.tag = None \/ LowerCase(node.tag) = LowerCase(selector.tag)
                /\ selector.element_id = None
                   \/ ("id" \in DOMAIN node.attrs
                       /\ node.attrs["id"] = selector.element_id)
                /\ \A k \in 1..Len(selector.classes) : IsToken(class, selector.classes[k])
           /\ (selector.tag = None /\ selector.element_id = None
               /\ selector.classes = <<>>) => html_call.result

\* A filter with a tag, an id and two classes matches a node whose class
\* attribute names the classes in another order among whitespace.
C33_Witness ==
    /\ html_call.op = "matches_simple"
    /\ html_call.result
    /\ html_call.selector.tag = "DIV"
    /\ html_call.selector.element_id = "i"
    /\ Len(html_call.selector.classes) = 2
    /\ html_call.node.attrs["class"] = <<" ", "d", "\t", "c">>

\* ---------------------------------------------------------------------
\* C34: conservation of items. In every state of a run each item whose
\* iteration has ended is counted in exactly one of processed,
\* skipped.url, skipped.fingerprint, skipped.invalid and skipped.write; on
\* every completed run the five add up to the number of items fetch_page
\* returned over all pages; the list of persisted items is as long as
\* processed.
RECURSIVE ItemsReturned(_)
ItemsReturned(i) ==
    IF i = 0 THEN 0
    ELSE (IF IsEv(i, "fetch_page") /\ trace[i].info = "ok" THEN trace[i].pos ELSE 0)
         + ItemsReturned(i - 1)

\* The items the loop has taken up, and the one it was left on, if any.
TakenUp == {<<trace[i].page, trace[i].pos>> : i \in {j \in Idx : IsEv(j, "to_absolute")}}
LeftOn ==
    IF pc = "aborted" /\ ~PageLevelAbort /\ trace # <<>>
    THEN {<<trace[Len(trace)].page, trace[Len(trace)].pos>>} ELSE {}
EndsOf(item) == ItemEvents(item[1], item[2], {"skip", "persist"})

C34_ItemsConserved ==
    /\ \A item \in TakenUp \ LeftOn : Cardinality(EndsOf(item)) = 1
    /\ \A item \in LeftOn : EndsOf(item) = {}
    /\ processed = Cardinality({i \in Idx : IsEv(i, "persist")})
    /\ \A key \in {"url", "fingerprint", "invalid", "write"} :
         SkippedCount(key)
            = Cardinality({i \in Idx : IsEv(i, "skip") /\ trace[i].info = key})
    /\ Counted = Cardinality(TakenUp \ LeftOn)
    /\ pc = "items" => Counted = ItemsReturned(Len(trace)) - (Len(items) - position)
    /\ pc \in {"page", "finished"} => Counted = ItemsReturned(Len(trace))
    /\ Len(persisted) = processed

\* A completed run that counted at least three items under two reasons.
C34_Witness ==
    /\ pc = "finished"
    /\ ItemsReturned(Len(trace)) >= 3
    /\ SkippedCount("url") >= 1
    /\ SkippedCount("invalid") >= 1

\* C35 (as claimed): is_new marks the fingerprint before the write is
\* attempted. When the writer fails for the first item of the run, every
\* later item of the page that has another URL and the same fingerprint
\* (here: the same title) and can be made a record is counted under
\* skipped.fingerprint, is not written, and no record of the run has that
\* fingerprint.
SameFingerprintLater(k, p, q) ==
    /\ Truthy(items[q].content_html)
    /\ items[q].url # EmptyUrl
    /\ ToAbsolute(items[q].url, PageUrl(k)).val # trace[FirstBuild].url
    /\ items[q].title = items[p].title
    /\ \A h \in Idx : (IsEv(h, "build_article") /\ trace[h].page = k /\ trace[h].pos = q)
                        => trace[h].info \in {"ok", "TypeError"}

C35_SeenBeforeWrite ==
    (RunEnded /\ ~PageLevelAbort /\ FirstItemBuildable
       /\ page_index = trace[FirstBuild].page
       /\ trace[FirstBuild].url \in WriterRejects) =>
      LET k == trace[FirstBuild].page
          p == trace[FirstBuild].pos
      IN /\ \E h \in ItemEvents(k, p, {"is_new"}) :
              \E w \in ItemEvents(k, p, {"write"}) : h < w /\ FailedEv(w, "write")
         /\ \A q \in (p + 1)..Len(items) : SameFingerprintLater(k, p, q) =>
              /\ \E h \in ItemEvents(k, q, {"skip"}) : trace[h].info = "fingerprint"
              /\ ItemEvents(k, q, {"write", "persist"}) = {}
         /\ persisted = <<>>

\* C36: a URL enters the seen-URL set before the item is normalized. When
\* the first item of the run with an absolute URL ends as invalid, as a
\* fingerprint duplicate or as a write failure, every later item of the
\* run that resolves to the same absolute URL is counted under
\* skipped.url, once, and is never normalized, fingerprinted or written.
EndedUncollected(j) ==
    /\ IsEv(j, "skip")
    /\ trace[j].info \in {"invalid", "fingerprint", "write"}

C36_UrlSeenBeforeNormalize ==
    \A j \in Idx : EndedUncollected(j) =>
        /\ trace[j].url \in seen_urls
        /\ \A i \in (j + 1)..Len(trace) :
             (IsEv(i, "to_absolute") /\ trace[i].info = "ok"
              /\ trace[i].url = trace[j].url) =>
                LET k == trace[i].page
                    p == trace[i].pos
                IN /\ i < Len(trace)
                   /\ IsEv(i + 1, "skip") /\ trace[i + 1].info = "url"
                   /\ trace[i + 1].page = k /\ trace[i + 1].pos = p
                   /\ Cardinality(ItemEvents(k, p, {"skip"})) = 1
                   /\ ItemEvents(k, p, {"build_article", "fingerprint", "is_new",
                                        "write", "persist"}) = {}
                   /\ SkippedCount("url") >= 1

\* An item ended as invalid and an item of the next page resolved to its
\* URL.
C36_Witness ==
    \E j \in Idx :
        /\ EndedUncollected(j)
        /\ trace[j].page = 1
        /\ \E i \in (j + 1)..Len(trace) :
             /\ IsEv(i, "to_absolute") /\ trace[i].info = "ok"
             /\ trace[i].url = trace[j].url
             /\ trace[i].page = 2

\* C38 (as claimed): when execute() is left by an exception on page 2, the
\* article written for the first item of page 1 (an item that can be made
\* a record and that the writer takes) stays written, and the run returns
\* neither metrics nor persisted-item records.
Returned == \E i \in Idx : IsEv(i, "finish")
WrittenArticles == {trace[i].url : i \in {j \in Idx : IsEv(j, "write") /\ trace[j].info = "ok"}}

====
